---- MODULE Spec2Model ----
(***************************************************************************)
(* Configuration resolution and resource assembly of the Odyssey CDK       *)
(* project: placeholder expansion, fragment merging, environment           *)
(* resolution (get_cfg) and the builders DynamoTables, LambdaFleet and     *)
(* WebSocketApis as ChatBackendStack composes them.                        *)
(*                                                                         *)
(* Text is modelled character by character: a Python str is a sequence of  *)
(* one-character strings, so that the regular expression of                *)
(* expand_placeholders, lower-casing and lexicographic sorting are         *)
(* computed rather than assumed.  Dictionary keys that the code writes as  *)
(* literals ("name", "runtime", ...) are TLA+ strings.                     *)
(***************************************************************************)
EXTENDS Integers, Sequences, FiniteSets, TLC

----------------------------------------------------------------------------
(* Characters and strings *)

\* The characters the model uses, in ascending code-point order.
Ascii ==
  << "$", "-", ".", "/", "0", "1", "2", "3", "4", "5", "6", "7", "8", "9",
     ":", "A", "B", "C", "D", "E", "F", "G", "H", "I", "J", "K", "L", "M", "N",
     "O", "P", "Q", "R", "S", "T", "U", "V", "W", "X", "Y", "Z", "_",
     "a", "b", "c", "d", "e", "f", "g", "h", "i", "j", "k", "l", "m", "n",
     "o", "p", "q", "r", "s", "t", "u", "v", "w", "x", "y", "z", "{", "}" >>

Ord(c) == CHOOSE i \in 1..Len(Ascii) : Ascii[i] = c

UpperChars ==
  << "A", "B", "C", "D", "E", "F", "G", "H", "I", "J", "K", "L", "M", "N",
     "O", "P", "Q", "R", "S", "T", "U", "V", "W", "X", "Y", "Z" >>

LowerChars ==
  << "a", "b", "c", "d", "e", "f", "g", "h", "i", "j", "k", "l", "m", "n",
     "o", "p", "q", "r", "s", "t", "u", "v", "w", "x", "y", "z" >>

DigitChars == {"0", "1", "2", "3", "4", "5", "6", "7", "8", "9"}

Range(f) == {f[i] : i \in DOMAIN f}

\* str.lower() on one character, then on a string.
LowerChar(c) ==
  IF c \in Range(UpperChars)
    THEN LowerChars[CHOOSE i \in 1..Len(UpperChars) : UpperChars[i] = c]
    ELSE c

Lower(s) == [i \in 1..Len(s) |-> LowerChar(s[i])]

\* str.upper()
UpperChar(c) ==
  IF c \in Range(LowerChars)
    THEN UpperChars[CHOOSE i \in 1..Len(LowerChars) : LowerChars[i] = c]
    ELSE c

Upper(s) == [i \in 1..Len(s) |-> UpperChar(s[i])]

MinOf(a, b) == IF a < b THEN a ELSE b

\* Python's < on str: lexicographic by code point, a proper prefix first.
StrLess(a, b) ==
  \E i \in 1..(MinOf(Len(a), Len(b)) + 1) :
     /\ \A j \in 1..(i - 1) : a[j] = b[j]
     /\ \/ i > Len(a) /\ i <= Len(b)
        \/ i <= Len(a) /\ i <= Len(b) /\ Ord(a[i]) < Ord(b[i])

\* sorted() over a set of distinct strings.
RECURSIVE SortedStrs(_)
SortedStrs(S) ==
  IF S = {} THEN <<>>
  ELSE LET m == CHOOSE x \in S : \A y \in S \ {x} : StrLess(x, y)
       IN <<m>> \o SortedStrs(S \ {m})

StartsWith(s, p) == Len(s) >= Len(p) /\ SubSeq(s, 1, Len(p)) = p
EndsWith(s, p) == Len(s) >= Len(p) /\ SubSeq(s, Len(s) - Len(p) + 1, Len(s)) = p

----------------------------------------------------------------------------
(* JSON values: every value carries its Python type *)

Str(s) == [t |-> "str", v |-> s]
Num(n) == [t |-> "num", v |-> n]
Bool(b) == [t |-> "bool", v |-> b]
List(l) == [t |-> "list", v |-> l]
Dict(d) == [t |-> "dict", v |-> d]
Null == [t |-> "null", v |-> 0]

EmptyDict == [k \in {} |-> Null]

\* A recursive (deep) merge of nested objects: what dict.update does NOT do.
UpdateDeep(d1, d2) ==
  [k \in (DOMAIN d1) \cup (DOMAIN d2) |->
     IF k \in DOMAIN d2
       THEN IF k \in DOMAIN d1 /\ d1[k].t = "dict" /\ d2[k].t = "dict"
              THEN Dict([j \in (DOMAIN d1[k].v) \cup (DOMAIN d2[k].v) |->
                            IF j \in DOMAIN d2[k].v THEN d2[k].v[j] ELSE d1[k].v[j]])
              ELSE d2[k]
       ELSE d1[k]]

\* dict.update / {**d1, **d2}: the keys of d2 replace those of d1 whole.
Update(d1, d2) ==
  [k \in (DOMAIN d1) \cup (DOMAIN d2) |-> IF k \in DOMAIN d2 THEN d2[k] ELSE d1[k]]

\* dict.setdefault(k, v)
SetDefault(d, k, v) ==
  [x \in (DOMAIN d) \cup {k} |-> IF x \in DOMAIN d THEN d[x] ELSE v]

\* d[k] = v
SetItem(d, k, v) ==
  [x \in (DOMAIN d) \cup {k} |-> IF x = k THEN v ELSE d[x]]

\* Python truthiness of a JSON value (the `x or default` and `if x:` idioms).
Truthy(x) ==
  CASE x.t = "null" -> FALSE
    [] x.t = "bool" -> x.v
    [] x.t = "num" -> x.v # 0
    [] x.t = "str" -> Len(x.v) > 0
    [] x.t = "list" -> Len(x.v) > 0
    [] x.t = "dict" -> DOMAIN x.v # {}

\* dict.get(k) and dict.get(k, default)
Get(d, k) == IF k \in DOMAIN d THEN d[k] ELSE Null
GetOr(d, k, default) == IF k \in DOMAIN d THEN d[k] ELSE default

----------------------------------------------------------------------------
(* Errors: the exception type, the check that raised it, and the names its
   message carries (data-derived text in names, literal keys in fields) *)

NoErr == [type |-> "none", rule |-> "", names |-> <<>>, fields |-> <<>>]
Err(type, rule, names, fields) ==
  [type |-> type, rule |-> rule, names |-> names, fields |-> fields]

----------------------------------------------------------------------------
(* Placeholder expansion *)

\* An identifier class without the underscore (a pattern the code does not have).
IdentCharsNoUnderscore == Range(UpperChars) \cup Range(LowerChars) \cup DigitChars

IdentChars == Range(UpperChars) \cup Range(LowerChars) \cup DigitChars \cup {"_"}

\* The first index >= i of s that holds no identifier character (Len(s)+1 if none).
RECURSIVE IdentEnd(_, _)
IdentEnd(s, i) ==
  IF i > Len(s) \/ s[i] \notin IdentChars THEN i ELSE IdentEnd(s, i + 1)

\* _VAR = \$\{([A-Za-z0-9_]+)\} matched at position i: the index of the closing
\* brace, or 0 when the pattern does not match there.
BraceAt(s, i, j) == IF j > i + 2 /\ j <= Len(s) /\ s[j] = "}" THEN j ELSE 0
VarMatchEnd(s, i) ==
  IF i + 1 <= Len(s) /\ s[i] = "$" /\ s[i + 1] = "{"
    THEN BraceAt(s, i, IdentEnd(s, i + 2))
    ELSE 0

\* _VAR.sub(lambda m: str(vars.get(m.group(1), m.group(0))), s) from position i:
\* one left-to-right pass, the replacement text is not scanned again.
RECURSIVE VarSub(_, _, _)

\* A substitution that drops the tokens of unknown names (a bug the code does
\* not have).
VarSubFromDroppingUnknown(s, i, vars, e) ==
  IF e = 0
    THEN <<s[i]>> \o VarSub(s, i + 1, vars)
    ELSE (IF SubSeq(s, i + 2, e - 1) \in DOMAIN vars
            THEN vars[SubSeq(s, i + 2, e - 1)]
            ELSE <<>>)
           \o VarSub(s, e + 1, vars)

\* The text from position i on, e being where the pattern that starts at i
\* ends (0: no pattern starts there).
VarSubFrom(s, i, vars, e) ==
  IF e = 0
    THEN <<s[i]>> \o VarSub(s, i + 1, vars)
    ELSE (IF SubSeq(s, i + 2, e - 1) \in DOMAIN vars
            THEN vars[SubSeq(s, i + 2, e - 1)]
            ELSE SubSeq(s, i, e))
           \o VarSub(s, e + 1, vars)

VarSub(s, i, vars) ==
  IF i > Len(s) THEN <<>> ELSE VarSubFrom(s, i, vars, VarMatchEnd(s, i))

RECURSIVE expand_placeholders(_, _)
expand_placeholders(obj, vars) ==
  CASE obj.t = "str" -> Str(VarSub(obj.v, 1, vars))
    [] obj.t = "list" -> List([i \in DOMAIN obj.v |-> expand_placeholders(obj.v[i], vars)])
    [] obj.t = "dict" -> Dict([k \in DOMAIN obj.v |-> expand_placeholders(obj.v[k], vars)])
    [] OTHER -> obj

----------------------------------------------------------------------------
(* Text constants of the environment context *)

s_dev == <<"d", "e", "v">>   \* dev
s_main == <<"m", "a", "i", "n">>   \* main
s_MAIN == <<"M", "A", "I", "N">>   \* MAIN
s_eu_west_1 == <<"e", "u", "-", "w", "e", "s", "t", "-", "1">>   \* eu-west-1
s_aws == <<"a", "w", "s">>   \* aws
s_acct == <<"1", "1", "1">>   \* 111
s_owner == <<"o", "w", "n">>   \* own
s_repo == <<"r", "e", "p">>   \* rep
s_dot_account_id == <<".", "a", "c", "c", "o", "u", "n", "t", "_", "i", "d">>   \* .account_id
s_github_owner == <<"g", "i", "t", "h", "u", "b", ".", "o", "w", "n", "e", "r">>   \* github.owner
s_github_repo == <<"g", "i", "t", "h", "u", "b", ".", "r", "e", "p", "o">>   \* github.repo
s_arn_prefix == <<"a", "r", "n", ":", "a", "w", "s", ":", "c", "o", "d", "e", "s", "t", "a", "r", "-", "c", "o", "n", "n", "e", "c", "t", "i", "o", "n", "s", ":">>   \* arn:aws:codestar-connections:
s_colon == <<":">>   \* :
s_connection_slash == <<":", "c", "o", "n", "n", "e", "c", "t", "i", "o", "n", "/">>   \* :connection/
s_conn == <<"c", "1">>   \* c1
k_EnvName == <<"E", "n", "v", "N", "a", "m", "e">>   \* EnvName
k_AccountId == <<"A", "c", "c", "o", "u", "n", "t", "I", "d">>   \* AccountId
k_Region == <<"R", "e", "g", "i", "o", "n">>   \* Region
k_Partition == <<"P", "a", "r", "t", "i", "t", "i", "o", "n">>   \* Partition
k_GithubOwner == <<"G", "i", "t", "h", "u", "b", "O", "w", "n", "e", "r">>   \* GithubOwner
k_GithubRepo == <<"G", "i", "t", "h", "u", "b", "R", "e", "p", "o">>   \* GithubRepo
k_Branch == <<"B", "r", "a", "n", "c", "h">>   \* Branch
k_ConnectionId == <<"C", "o", "n", "n", "e", "c", "t", "i", "o", "n", "I", "d">>   \* ConnectionId
k_ConnectionArn == <<"C", "o", "n", "n", "e", "c", "t", "i", "o", "n", "A", "r", "n">>   \* ConnectionArn
s_github == <<"g", "i", "t", "h", "u", "b">>   \* github
s_env == <<"e", "n", "v">>   \* env
s_region == <<"r", "e", "g", "i", "o", "n">>   \* region

----------------------------------------------------------------------------
(* Environment resolution: odyssey_cfg.py *)

\* The key of the context object that a piece of text names.  The context is a
\* JSON object whose keys the model writes as TLA+ strings; an environment name
\* computed at run time is looked up through this table.
KeyOf(s) ==
  CASE s = s_dev -> "dev"
    [] s = s_main -> "main"
    [] s = s_github -> "github"
    [] s = s_env -> "env"
    [] s = s_region -> "region"
    [] OTHER -> "(no such key)"

\* EnvCfg.resolved_connection_arn
resolved_connection_arn(env) ==
  IF Truthy(env.connection_arn) THEN env.connection_arn
  ELSE IF Truthy(env.connection_id)
         THEN Str(s_arn_prefix \o env.region.v \o s_colon \o env.account_id.v
                    \o s_connection_slash \o env.connection_id.v)
         ELSE Null

\* A missing-key list that stops at the first missing key (a bug the code
\* does not have).
MissingContextKeysFirst(env_name, account_id, owner, repo) ==
  IF ~Truthy(account_id) THEN <<env_name \o s_dot_account_id>>
  ELSE IF ~Truthy(owner) THEN <<s_github_owner>>
  ELSE IF ~Truthy(repo) THEN <<s_github_repo>>
  ELSE <<>>

\* The missing-key list of get_cfg, in the order the code appends to it.
MissingContextKeys(env_name, account_id, owner, repo) ==
  (IF ~Truthy(account_id) THEN <<env_name \o s_dot_account_id>> ELSE <<>>)
    \o (IF ~Truthy(owner) THEN <<s_github_owner>> ELSE <<>>)
    \o (IF ~Truthy(repo) THEN <<s_github_repo>> ELSE <<>>)

\* ErrorHandler.validate_context_keys
validate_context_keys(missing_keys) ==
  IF Len(missing_keys) > 0
    THEN Err("ValueError", "validate_context_keys", missing_keys, <<>>)
    ELSE NoErr

\* An environment selection that ignores the default the context declares (a
\* bug the code does not have).
SelectEnvNameOverrideOnly(context) ==
  Lower((IF Truthy(context.env_override) THEN context.env_override ELSE Str(s_dev)).v)

\* The environment name get_cfg selects: override, then the context's own
\* default, then "dev"; lower-cased.
SelectEnvName(context) ==
  LET ctx == IF Truthy(context.odyssey) THEN context.odyssey.v ELSE EmptyDict
      raw == IF Truthy(context.env_override) THEN context.env_override
             ELSE IF Truthy(Get(ctx, "env")) THEN Get(ctx, "env")
             ELSE Str(s_dev)
  IN Lower(raw.v)

\* x or {} for a context value x
OrEmptyDict(x) == IF Truthy(x) THEN x.v ELSE EmptyDict

\* The body of get_cfg from the reading of env_ctx on: [err, cfg]; env_ctx and
\* gh are the context's objects for the environment and for github.
EnvCfgOf(env_name, region, env_ctx, gh) ==
  [err |-> validate_context_keys(
             MissingContextKeys(env_name, Get(env_ctx, "account_id"),
                                Get(gh, "owner"), Get(gh, "repo"))),
   cfg |-> [env |-> [name |-> env_name,
                     account_id |-> Get(env_ctx, "account_id"),
                     region |-> region,
                     branch |-> GetOr(env_ctx, "branch", Str(env_name)),
                     connection_id |-> Get(env_ctx, "connection_id"),
                     connection_arn |-> Get(env_ctx, "connection_arn")],
            github |-> [owner |-> Get(gh, "owner"), repo |-> Get(gh, "repo")]]]

\* The body of get_cfg once ctx and env_name are known.
EnvOf(ctx, env_name) ==
  EnvCfgOf(env_name, GetOr(ctx, "region", Str(s_eu_west_1)),
           OrEmptyDict(Get(ctx, KeyOf(env_name))), OrEmptyDict(Get(ctx, "github")))

\* The body of get_cfg (what runs on a cache miss): [err, cfg].
\* context.odyssey is node.try_get_context("odyssey"), context.env_override is
\* node.try_get_context("odyssey.env").
get_cfg_body(context) == EnvOf(OrEmptyDict(context.odyssey), SelectEnvName(context))

\* A variable set: placeholder name -> text.
NoVars == [k \in {} |-> <<>>]
VarsUpdate(a, b) ==
  [k \in (DOMAIN a) \cup (DOMAIN b) |-> IF k \in DOMAIN b THEN b[k] ELSE a[k]]

\* OdysseyCfg.vars(stack, extra): stack is [account, region, partition] (text,
\* empty when the stack does not give it), extra a variable set (NoVars: none).
OdysseyCfg_vars(cfg, stack, extra) ==
  LET base ==
        (k_EnvName :> cfg.env.name)
        @@ (k_AccountId :> IF Len(stack.account) > 0 THEN stack.account ELSE cfg.env.account_id.v)
        @@ (k_Region :> IF Len(stack.region) > 0 THEN stack.region ELSE cfg.env.region.v)
        @@ (k_Partition :> stack.partition)
        @@ (k_GithubOwner :> cfg.github.owner.v)
        @@ (k_GithubRepo :> cfg.github.repo.v)
        @@ (k_Branch :> cfg.env.branch.v)
      withId == IF Truthy(cfg.env.connection_id)
                  THEN VarsUpdate(base, k_ConnectionId :> cfg.env.connection_id.v)
                  ELSE base
      arn == resolved_connection_arn(cfg.env)
      withArn == IF Truthy(arn) THEN VarsUpdate(withId, k_ConnectionArn :> arn.v) ELSE withId
  IN IF DOMAIN extra # {} THEN VarsUpdate(withArn, extra) ELSE withArn

----------------------------------------------------------------------------
(* Text constants of the configuration tree and of the builders *)

s_cdk_project == <<"c", "d", "k", "_", "p", "r", "o", "j", "e", "c", "t">>   \* cdk_project
s_configs == <<"c", "o", "n", "f", "i", "g", "s">>   \* configs
s_iam == <<"i", "a", "m">>   \* iam
s_policies == <<"p", "o", "l", "i", "c", "i", "e", "s">>   \* policies
s_tables == <<"t", "a", "b", "l", "e", "s">>   \* tables
s_apis == <<"a", "p", "i", "s">>   \* apis
s_ws == <<"w", "s">>   \* ws
s_routes == <<"r", "o", "u", "t", "e", "s">>   \* routes
s_lambda_configs == <<"l", "a", "m", "b", "d", "a", "_", "c", "o", "n", "f", "i", "g", "s">>   \* lambda_configs
s_defaults == <<"d", "e", "f", "a", "u", "l", "t", "s">>   \* defaults
s_lambda_src == <<"l", "a", "m", "b", "d", "a", "_", "s", "r", "c">>   \* lambda_src
s_app_py == <<"a", "p", "p", ".", "p", "y">>   \* app.py
s_api_json == <<"a", "p", "i", ".", "j", "s", "o", "n">>   \* api.json
s_dot_json == <<".", "j", "s", "o", "n">>   \* .json
s_config == <<"c", "o", "n", "f", "i", "g">>   \* config
s_python312 == <<"p", "y", "t", "h", "o", "n", "3", ".", "1", "2">>   \* python3.12
s_python311 == <<"p", "y", "t", "h", "o", "n", "3", ".", "1", "1">>   \* python3.11
s_python310 == <<"p", "y", "t", "h", "o", "n", "3", ".", "1", "0">>   \* python3.10
s_nodejs18 == <<"n", "o", "d", "e", "j", "s", "1", "8", ".", "x">>   \* nodejs18.x
s_nodejs20 == <<"n", "o", "d", "e", "j", "s", "2", "0", ".", "x">>   \* nodejs20.x
s_app_handler == <<"a", "p", "p", ".", "h", "a", "n", "d", "l", "e", "r">>   \* app.handler
s_manage_connections_json == <<"m", "a", "n", "a", "g", "e", "_", "c", "o", "n", "n", "e", "c", "t", "i", "o", "n", "s", ".", "j", "s", "o", "n">>   \* manage_connections.json
s_messages_json == <<"m", "e", "s", "s", "a", "g", "e", "s", ".", "j", "s", "o", "n">>   \* messages.json
s_messages == <<"m", "e", "s", "s", "a", "g", "e", "s">>   \* messages
s_sessions == <<"s", "e", "s", "s", "i", "o", "n", "s">>   \* sessions
s_chat == <<"c", "h", "a", "t">>   \* chat
s_auth == <<"a", "u", "t", "h">>   \* auth
s_read == <<"r", "e", "a", "d">>   \* read
s_write == <<"w", "r", "i", "t", "e">>   \* write
s_readWrite == <<"r", "e", "a", "d", "W", "r", "i", "t", "e">>   \* readWrite
s_readwrite == <<"r", "e", "a", "d", "w", "r", "i", "t", "e">>   \* readwrite
s_lambda == <<"l", "a", "m", "b", "d", "a">>   \* lambda

----------------------------------------------------------------------------
(* The file system: a path is a sequence of components, a tree maps each
   existing path to a directory or to a file with its content.  A file's
   content is the JSON value json.load returns, Malformed when json.load
   raises, or Text for a file that is no JSON document (app.py). *)

DirNode == [kind |-> "dir", content |-> Null]
FileNode(c) == [kind |-> "file", content |-> c]
Malformed == [t |-> "malformed", v |-> 0]
Text == [t |-> "text", v |-> 0]
NoFiles == [p \in {} |-> DirNode]

IsDir(fs, p) == p \in DOMAIN fs /\ fs[p].kind = "dir"
IsFile(fs, p) == p \in DOMAIN fs /\ fs[p].kind = "file"
Children(fs, p) == {q \in DOMAIN fs : Len(q) = Len(p) + 1 /\ SubSeq(q, 1, Len(p)) = p}
Descendants(fs, p) == {q \in DOMAIN fs : Len(q) > Len(p) /\ SubSeq(q, 1, Len(p)) = p}
Basename(p) == p[Len(p)]
Parent(p) == SubSeq(p, 1, Len(p) - 1)

\* str(path): the components joined by "/".
RECURSIVE PathStr(_)
PathStr(p) ==
  IF Len(p) = 0 THEN <<>>
  ELSE IF Len(p) = 1 THEN p[1]
  ELSE p[1] \o <<"/">> \o PathStr(Tail(p))

\* Path.__lt__: component by component.
PathLess(p, q) ==
  \E i \in 1..(MinOf(Len(p), Len(q)) + 1) :
     /\ \A j \in 1..(i - 1) : p[j] = q[j]
     /\ \/ i > Len(p) /\ i <= Len(q)
        \/ i <= Len(p) /\ i <= Len(q) /\ StrLess(p[i], q[i])

\* sorted() over a set of Path objects.
RECURSIVE SortedPaths(_)
SortedPaths(S) ==
  IF S = {} THEN <<>>
  ELSE LET m == CHOOSE x \in S : \A y \in S \ {x} : PathLess(x, y)
       IN <<m>> \o SortedPaths(S \ {m})

\* sorted(str(p) for p in S): by the joined text.
RECURSIVE SortedPathStrs(_)
SortedPathStrs(S) ==
  IF S = {} THEN <<>>
  ELSE LET m == CHOOSE x \in S : \A y \in S \ {x} : StrLess(PathStr(x), PathStr(y))
       IN <<m>> \o SortedPathStrs(S \ {m})

\* fnmatch of a file name against "*.json" and against "config*.json".
GlobJson(name) == EndsWith(name, s_dot_json)
GlobConfigJson(name) ==
  /\ Len(name) >= Len(s_config) + Len(s_dot_json)
  /\ StartsWith(name, s_config)
  /\ EndsWith(name, s_dot_json)

----------------------------------------------------------------------------
(* ConfigManager: config_manager.py *)

CONFIG_ROOT == <<s_cdk_project, s_configs>>

CONFIG_PATHS ==
  [policies |-> <<s_iam, s_policies>>,
   tables |-> <<s_tables>>,
   ws_apis |-> <<s_apis, s_ws>>,
   ws_routes |-> <<s_apis, s_ws, s_routes>>,
   lambda_configs |-> <<s_lambda_configs>>,
   defaults |-> <<s_defaults>>]

\* get_config_path(config_type, filename): [err, path]; filename <<>> is None.
get_config_path(config_type, filename) ==
  IF config_type \notin DOMAIN CONFIG_PATHS
    THEN [err |-> Err("ValueError", "get_config_path", <<>>, <<config_type>>),
          path |-> <<>>]
    ELSE [err |-> NoErr,
          path |-> CONFIG_ROOT \o CONFIG_PATHS[config_type]
                     \o (IF Len(filename) > 0 THEN <<filename>> ELSE <<>>)]

\* ConfigManager.expand_placeholders(obj, vars=None): self.vars when vars is None.
NoneVars == [k \in {<<>>} |-> <<>>]

\* An expansion that leaves lists and mappings as they are (a bug the code
\* does not have).
ConfigManager_expand_placeholders_flat(self_vars, obj, vars) ==
  IF obj.t = "str"
    THEN Str(VarSub(obj.v, 1, IF vars = NoneVars THEN self_vars ELSE vars))
    ELSE obj

ConfigManager_expand_placeholders(self_vars, obj, vars) ==
  LET used == IF vars = NoneVars THEN self_vars ELSE vars
  IN CASE obj.t = "str" -> Str(VarSub(obj.v, 1, used))
       [] obj.t = "list" -> List([i \in DOMAIN obj.v |-> expand_placeholders(obj.v[i], used)])
       [] obj.t = "dict" -> Dict([k \in DOMAIN obj.v |-> expand_placeholders(obj.v[k], used)])
       [] OTHER -> obj

\* A load_json that expands what it has expanded (a bug the code does not have).
ConfigManager_load_json_twice(fs, self_vars, filepath, expand_vars) ==
  IF ~IsFile(fs, filepath)
    THEN [err |-> Err("FileNotFoundError", "load_json", filepath, <<>>), data |-> Null]
  ELSE IF fs[filepath].content.t \in {"malformed", "text"}
    THEN [err |-> Err("JSONDecodeError", "json.load", filepath, <<>>), data |-> Null]
  ELSE [err |-> NoErr,
        data |-> IF expand_vars
                   THEN ConfigManager_expand_placeholders(self_vars,
                          ConfigManager_expand_placeholders(self_vars, fs[filepath].content,
                                                            NoneVars),
                          NoneVars)
                   ELSE fs[filepath].content]

\* ConfigManager.load_json(filepath, expand_vars): [err, data]
ConfigManager_load_json(fs, self_vars, filepath, expand_vars) ==
  IF ~IsFile(fs, filepath)
    THEN [err |-> Err("FileNotFoundError", "load_json", filepath, <<>>), data |-> Null]
  ELSE IF fs[filepath].content.t \in {"malformed", "text"}
    THEN [err |-> Err("JSONDecodeError", "json.load", filepath, <<>>), data |-> Null]
  ELSE [err |-> NoErr,
        data |-> IF expand_vars
                   THEN ConfigManager_expand_placeholders(self_vars, fs[filepath].content, NoneVars)
                   ELSE fs[filepath].content]

\* ConfigManager.load_config(config_type, filename, expand_vars=True): [err, data]
load_config(fs, self_vars, config_type, filename) ==
  LET p == get_config_path(config_type, filename)
  IN IF p.err # NoErr THEN [err |-> p.err, data |-> Null]
     ELSE ConfigManager_load_json(fs, self_vars, p.path, TRUE)

----------------------------------------------------------------------------
(* Function configuration: lambda_builder.py *)

\* lambda_builder.load_json(path): [err, data]
load_json(fs, path) ==
  IF ~IsFile(fs, path)
    THEN [err |-> Err("FileNotFoundError", "open", path, <<>>), data |-> Null]
  ELSE IF fs[path].content.t \in {"malformed", "text"}
    THEN [err |-> Err("JSONDecodeError", "json.load", path, <<>>), data |-> Null]
  ELSE [err |-> NoErr, data |-> fs[path].content]

\* find_lambda_dirs(root): [err, dirs], the sub-directories holding app.py, sorted.
find_lambda_dirs(fs, root) ==
  IF ~IsDir(fs, root)
    THEN [err |-> Err("FileNotFoundError", "find_lambda_dirs", root, <<>>), dirs |-> <<>>]
    ELSE [err |-> NoErr,
          dirs |-> SortedPaths({d \in Children(fs, root) :
                                   IsDir(fs, d) /\ IsFile(fs, d \o <<s_app_py>>)})]

\* sorted(folder.glob("config*.json"))
ConfigFilesOf(fs, folder) ==
  SortedPaths({q \in Children(fs, folder) : GlobConfigJson(Basename(q))})

\* The defaults block: a default that overwrites the fragments' value (a bug the
\* code does not have), and the block as written, with setdefault and then
\* conf["code_path"] = str(folder.resolve()).
ApplyLambdaDefaultsOverwriting(conf, folder) ==
  SetItem(SetItem(SetItem(SetItem(SetItem(SetItem(conf,
     "name", Str(Basename(folder))),
     "runtime", Str(s_python312)),
     "memory", Num(256)),
     "timeout", Num(10)),
     "handler", Str(s_app_handler)),
     "code_path", Str(PathStr(folder)))

ApplyLambdaDefaults(conf, folder) ==
  SetItem(SetDefault(SetDefault(SetDefault(SetDefault(SetDefault(conf,
     "name", Str(Basename(folder))),
     "runtime", Str(s_python312)),
     "memory", Num(256)),
     "timeout", Num(10)),
     "handler", Str(s_app_handler)),
     "code_path", Str(PathStr(folder)))

\* The merge loop over the sorted files: [err, conf].
RECURSIVE MergeConfigFiles(_, _, _)
MergeConfigFiles(fs, files, conf) ==
  IF files = <<>> THEN [err |-> NoErr, conf |-> conf]
  ELSE LET r == load_json(fs, Head(files))
       IN IF r.err # NoErr THEN [err |-> r.err, conf |-> conf]
          ELSE MergeConfigFiles(fs, Tail(files), Update(conf, r.data.v))

\* lambda_builder.load_lambda_config_from_folder(folder, vars): [err, conf]
load_lambda_config_from_folder(fs, folder, vars) ==
  LET m == MergeConfigFiles(fs, ConfigFilesOf(fs, folder), EmptyDict)
  IN IF m.err # NoErr THEN m
     ELSE [err |-> NoErr,
           conf |-> expand_placeholders(Dict(ApplyLambdaDefaults(m.conf, folder)), vars).v]

\* ConfigManager.load_lambda_config_from_folder(folder, extra_vars): [err, conf]
RECURSIVE ConfigManager_MergeConfigFiles(_, _, _, _)
ConfigManager_MergeConfigFiles(fs, self_vars, files, conf) ==
  IF files = <<>> THEN [err |-> NoErr, conf |-> conf]
  ELSE LET r == ConfigManager_load_json(fs, self_vars, Head(files), FALSE)
       IN IF r.err # NoErr THEN [err |-> r.err, conf |-> conf]
          ELSE ConfigManager_MergeConfigFiles(fs, self_vars, Tail(files), Update(conf, r.data.v))

ConfigManager_load_lambda_config_from_folder(fs, self_vars, folder, extra_vars) ==
  LET m == ConfigManager_MergeConfigFiles(fs, self_vars, ConfigFilesOf(fs, folder), EmptyDict)
      vars_to_use == IF DOMAIN extra_vars # {} THEN VarsUpdate(self_vars, extra_vars) ELSE self_vars
  IN IF m.err # NoErr THEN m
     ELSE [err |-> NoErr,
           conf |-> ConfigManager_expand_placeholders(self_vars,
                       Dict(ApplyLambdaDefaults(m.conf, folder)), vars_to_use).v]

----------------------------------------------------------------------------
(* get_cfg and its cache: odyssey_cfg.py, @lru_cache(maxsize=1) *)

VARIABLES
  cfgContext,    \* the CDK context of the app: [odyssey, env_override]
  cfgCache,      \* the lru_cache of get_cfg: entries [key, obj], least recent first
  cfgHeap,       \* the OdysseyCfg objects created so far; an object is its index
  cfgReturned,   \* scope -> the objects get_cfg has returned for that scope
  cfgManagers,   \* the ConfigManager instances created: [stack, cfg, vars]
  cfgRaised,     \* the outcome of the latest call: NoErr or the error raised
  cfgCalls       \* number of calls made

cfgVars == <<cfgContext, cfgCache, cfgHeap, cfgReturned, cfgManagers, cfgRaised, cfgCalls>>

LruMaxSize == 1
MaxCfgCalls == 4
Scopes == {"app", "stackA", "stackB"}

\* A stack that leaves account and region to the environment.
s_empty == <<>>
StackOf(scope) == [account |-> s_empty, region |-> s_empty, partition |-> s_aws]

\* The contexts a cdk.json and the -c option can give.
OptionalKey(present, k, v) == IF present THEN k :> v ELSE <<>>
EnvBlock(hasAccount) == Dict(OptionalKey(hasAccount, "account_id", Str(s_acct)))
OdysseyContext(hasEnv, devAcct, mainAcct, hasOwner, hasRepo) ==
  Dict(OptionalKey(hasEnv, "env", Str(s_dev))
         @@ ("dev" :> EnvBlock(devAcct))
         @@ ("main" :> EnvBlock(mainAcct))
         @@ ("github" :> Dict(OptionalKey(hasOwner, "owner", Str(s_owner))
                                @@ OptionalKey(hasRepo, "repo", Str(s_repo)))))
Contexts ==
  {[odyssey |-> OdysseyContext(e, d, m, o, r), env_override |-> ov] :
      e \in BOOLEAN, d \in BOOLEAN, m \in BOOLEAN, o \in BOOLEAN, r \in BOOLEAN,
      ov \in {Null, Str(s_MAIN)}}
    \cup {[odyssey |-> Null, env_override |-> Null]}

\* functools.lru_cache: lookup by key; a hit becomes the most recent entry; a
\* new entry evicts the least recent one when the cache is full.
CacheHit(cache, key) == \E i \in DOMAIN cache : cache[i].key = key
CacheIndex(cache, key) == CHOOSE i \in DOMAIN cache : cache[i].key = key
CacheTouch(cache, key) ==
  LET i == CacheIndex(cache, key)
  IN SubSeq(cache, 1, i - 1) \o SubSeq(cache, i + 1, Len(cache)) \o <<cache[i]>>
CachePut(cache, key, obj) ==
  LET c == Append(cache, [key |-> key, obj |-> obj])
  IN IF Len(c) > LruMaxSize THEN Tail(c) ELSE c

\* get_cfg(scope) against the cache: [err, obj, cache, heap].  A raised call
\* leaves the cache as it was.
get_cfg(cache, heap, context, scope) ==
  IF CacheHit(cache, scope)
    THEN [err |-> NoErr, obj |-> cache[CacheIndex(cache, scope)].obj,
          cache |-> CacheTouch(cache, scope), heap |-> heap]
    ELSE LET r == get_cfg_body(context)
         IN IF r.err # NoErr
              THEN [err |-> r.err, obj |-> 0, cache |-> cache, heap |-> heap]
              ELSE [err |-> NoErr, obj |-> Len(heap) + 1,
                    cache |-> CachePut(cache, scope, Len(heap) + 1),
                    heap |-> Append(heap, r.cfg)]

CfgIdle ==
  /\ cfgContext = [odyssey |-> Null, env_override |-> Null]
  /\ cfgCache = <<>>
  /\ cfgHeap = <<>>
  /\ cfgReturned = [s \in Scopes |-> {}]
  /\ cfgManagers = {}
  /\ cfgRaised = NoErr
  /\ cfgCalls = 0

CfgInit ==
  /\ cfgContext \in Contexts
  /\ cfgCache = <<>>
  /\ cfgHeap = <<>>
  /\ cfgReturned = [s \in Scopes |-> {}]
  /\ cfgManagers = {}
  /\ cfgRaised = NoErr
  /\ cfgCalls = 0

\* A direct call get_cfg(scope), as LambdaFleet.__init__ makes it.
GetCfgCall(scope) ==
  /\ cfgCalls < MaxCfgCalls
  /\ LET r == get_cfg(cfgCache, cfgHeap, cfgContext, scope)
     IN /\ cfgCache' = r.cache
        /\ cfgHeap' = r.heap
        /\ cfgRaised' = r.err
        /\ cfgReturned' = IF r.err = NoErr
                            THEN [cfgReturned EXCEPT ![scope] = @ \cup {r.obj}]
                            ELSE cfgReturned
  /\ cfgCalls' = cfgCalls + 1
  /\ UNCHANGED <<cfgContext, cfgManagers>>

\* ConfigManager(stack): self.cfg = get_cfg(stack); self.vars = self.cfg.vars(stack).
ConfigManagerInit(stack) ==
  /\ cfgCalls < MaxCfgCalls
  /\ LET r == get_cfg(cfgCache, cfgHeap, cfgContext, stack)
     IN /\ cfgCache' = r.cache
        /\ cfgHeap' = r.heap
        /\ cfgRaised' = r.err
        /\ cfgReturned' = IF r.err = NoErr
                            THEN [cfgReturned EXCEPT ![stack] = @ \cup {r.obj}]
                            ELSE cfgReturned
        /\ cfgManagers' = IF r.err = NoErr
                            THEN cfgManagers \cup
                                   {[stack |-> stack, cfg |-> r.obj,
                                     vars |-> OdysseyCfg_vars(r.heap[r.obj], StackOf(stack), NoVars)]}
                            ELSE cfgManagers
  /\ cfgCalls' = cfgCalls + 1
  /\ UNCHANGED cfgContext

----------------------------------------------------------------------------
(* Merging configuration fragments: load_lambda_config_from_folder in
   lambda_builder.py and in config_manager.py, load_table_configs *)

s_fn_env == <<"f", "n", "-", "$", "{", "E", "n", "v", "N", "a", "m", "e", "}">>   \* fn-${EnvName}
s_api_env == <<"a", "p", "i", "-", "$", "{", "E", "n", "v", "N", "a", "m", "e", "}">>   \* api-${EnvName}
s_h_nope == <<"h", ".", "$", "{", "N", "o", "p", "e", "}">>   \* h.${Nope}
s_tok_env == <<"$", "{", "E", "n", "v", "N", "a", "m", "e", "}">>   \* ${EnvName}
s_fn_dash == <<"f", "n", "-">>   \* fn-
s_api_dash == <<"a", "p", "i", "-">>   \* api-
s_config_base_json == <<"c", "o", "n", "f", "i", "g", ".", "b", "a", "s", "e", ".", "j", "s", "o", "n">>   \* config.base.json
s_config_env_dev_json == <<"c", "o", "n", "f", "i", "g", ".", "e", "n", "v", ".", "d", "e", "v", ".", "j", "s", "o", "n">>   \* config.env.dev.json
s_config_json == <<"c", "o", "n", "f", "i", "g", ".", "j", "s", "o", "n">>   \* config.json
s_policy_json == <<"p", "o", "l", "i", "c", "y", ".", "j", "s", "o", "n">>   \* policy.json
s_defaults_json == <<"d", "e", "f", "a", "u", "l", "t", "s", ".", "j", "s", "o", "n">>   \* defaults.json
s_one == <<"1">>   \* 1
s_two == <<"2">>   \* 2
s_three == <<"3">>   \* 3

VARIABLES
  mImpl,      \* which loader runs
  mFs,        \* the file tree it reads
  mFolder,    \* the function folder, or the tables directory
  mSelfVars,  \* the variable set (the vars argument, or ConfigManager.vars)
  mExtra,     \* ConfigManager's extra_vars argument (NoVars: none)
  mPc,        \* position in the loader
  mFrags,     \* the files to merge, in merge order
  mLoaded,    \* the fragments loaded so far, in merge order
  mConf,      \* the local conf / merged dict
  mErr        \* the error raised, NoErr while none

mergeVars == <<mImpl, mFs, mFolder, mSelfVars, mExtra, mPc, mFrags, mLoaded, mConf, mErr>>

\* Fragments a file can hold.
FragEmpty == Dict(EmptyDict)
FragA == Dict([name |-> Str(s_api_env),
               env |-> Dict([A |-> Str(s_one), B |-> Str(s_two)])])
FragB == Dict([env |-> Dict([C |-> Str(s_three)]), memory |-> Num(512)])
FragC == Dict([env |-> List(<<Str(s_tok_env)>>), runtime |-> Str(s_python311),
               name |-> Str(s_auth)])
FragD == Dict([handler |-> Str(s_h_nope), timeout |-> Num(5)])
Fragments == {FragEmpty, FragA, FragB, FragC, FragD}
Absent == [t |-> "absent", v |-> 0]
FileChoices == Fragments \cup {Malformed, Absent}

OptionalFile(path, c) == IF c = Absent THEN NoFiles ELSE path :> FileNode(c)

\* A function folder with app.py, policy.json and up to three config files.
FolderFs(folder, c1, c2, c3) ==
  (<<s_lambda_src>> :> DirNode)
    @@ (folder :> DirNode)
    @@ (folder \o <<s_app_py>> :> FileNode(Text))
    @@ (folder \o <<s_policy_json>> :> FileNode(Dict([name |-> Str(s_policy_json)])))
    @@ OptionalFile(folder \o <<s_config_base_json>>, c1)
    @@ OptionalFile(folder \o <<s_config_env_dev_json>>, c2)
    @@ OptionalFile(folder \o <<s_config_json>>, c3)

TablesDir == CONFIG_ROOT \o CONFIG_PATHS["tables"]
TablesFs(defaults, conf) ==
  (CONFIG_ROOT :> DirNode)
    @@ (TablesDir :> DirNode)
    @@ OptionalFile(TablesDir \o <<s_defaults_json>>, defaults)
    @@ OptionalFile(TablesDir \o <<s_messages_json>>, conf)

VarSets ==
  {(k_EnvName :> s_dev) @@ (k_Region :> s_eu_west_1),
   (k_EnvName :> s_main) @@ (k_Branch :> s_tok_env)}

MergeIdle ==
  /\ mImpl = "none"
  /\ mFs = NoFiles
  /\ mFolder = <<>>
  /\ mSelfVars = NoVars
  /\ mExtra = NoVars
  /\ mPc = "idle"
  /\ mFrags = <<>>
  /\ mLoaded = <<>>
  /\ mConf = EmptyDict
  /\ mErr = NoErr

MergeInit ==
  /\ mImpl \in {"lambda_builder", "ConfigManager", "load_table_configs"}
  /\ mSelfVars \in VarSets
  /\ IF mImpl = "load_table_configs"
       THEN /\ mFolder = TablesDir
            /\ mExtra = NoVars
            /\ \E d \in FileChoices, c \in FileChoices : mFs = TablesFs(d, c)
       ELSE /\ mFolder \in {<<s_lambda_src, s_chat>>, <<s_lambda_src, s_fn_env>>}
            /\ mExtra \in (IF mImpl = "ConfigManager"
                             THEN {NoVars, k_EnvName :> s_main}
                             ELSE {NoVars})
            /\ \E c1 \in FileChoices, c2 \in FileChoices, c3 \in FileChoices :
                  mFs = FolderFs(mFolder, c1, c2, c3)
  /\ mPc = "start"
  /\ mFrags = <<>>
  /\ mLoaded = <<>>
  /\ mConf = EmptyDict
  /\ mErr = NoErr

\* config_files = sorted(folder.glob("config*.json")); conf = {}
MergeGlob ==
  /\ mPc = "start"
  /\ mImpl \in {"lambda_builder", "ConfigManager"}
  /\ mFrags' = ConfigFilesOf(mFs, mFolder)
  /\ mConf' = EmptyDict
  /\ mPc' = "merging"
  /\ UNCHANGED <<mImpl, mFs, mFolder, mSelfVars, mExtra, mLoaded, mErr>>

\* One turn of the loop: data = load_json(cf); conf.update(data)
MergeFile ==
  /\ mPc = "merging"
  /\ mImpl \in {"lambda_builder", "ConfigManager"}
  /\ Len(mLoaded) < Len(mFrags)
  /\ LET cf == mFrags[Len(mLoaded) + 1]
         r == IF mImpl = "lambda_builder"
                THEN load_json(mFs, cf)
                ELSE ConfigManager_load_json(mFs, mSelfVars, cf, FALSE)
     IN IF r.err # NoErr
          THEN /\ mErr' = r.err
               /\ mPc' = "raised"
               /\ UNCHANGED <<mLoaded, mConf>>
          ELSE /\ mLoaded' = Append(mLoaded, r.data)
               /\ mConf' = Update(mConf, r.data.v)
               /\ UNCHANGED <<mErr, mPc>>
  /\ UNCHANGED <<mImpl, mFs, mFolder, mSelfVars, mExtra, mFrags>>

\* The setdefault block and conf["code_path"]
MergeDefaults ==
  /\ mPc = "merging"
  /\ mImpl \in {"lambda_builder", "ConfigManager"}
  /\ Len(mLoaded) = Len(mFrags)
  /\ mConf' = ApplyLambdaDefaults(mConf, mFolder)
  /\ mPc' = "defaulted"
  /\ UNCHANGED <<mImpl, mFs, mFolder, mSelfVars, mExtra, mFrags, mLoaded, mErr>>

\* return expand_placeholders(conf, vars)
MergeExpand ==
  /\ mPc = "defaulted"
  /\ mConf' = IF mImpl = "lambda_builder"
                THEN expand_placeholders(Dict(mConf), mSelfVars).v
                ELSE ConfigManager_expand_placeholders(mSelfVars, Dict(mConf),
                        IF DOMAIN mExtra # {} THEN VarsUpdate(mSelfVars, mExtra)
                                              ELSE mSelfVars).v
  /\ mPc' = "done"
  /\ UNCHANGED <<mImpl, mFs, mFolder, mSelfVars, mExtra, mFrags, mLoaded, mErr>>

\* load_table_configs(config_files=["messages.json"], defaults_file="defaults.json"):
\* defaults = load_config("tables", defaults_file) or {}
TableDefaults ==
  /\ mPc = "start"
  /\ mImpl = "load_table_configs"
  /\ LET r == load_config(mFs, mSelfVars, "tables", s_defaults_json)
         p == get_config_path("tables", s_messages_json)
     IN IF r.err # NoErr
          THEN /\ mErr' = r.err
               /\ mPc' = "raised"
               /\ UNCHANGED <<mFrags, mLoaded, mConf>>
          ELSE /\ mLoaded' = <<IF Truthy(r.data) THEN r.data ELSE Dict(EmptyDict)>>
               /\ mConf' = mLoaded'[1].v
               /\ mFrags' = <<get_config_path("tables", s_defaults_json).path, p.path>>
               /\ mPc' = "merging"
               /\ UNCHANGED mErr
  /\ UNCHANGED <<mImpl, mFs, mFolder, mSelfVars, mExtra>>

\* conf = self.load_json(filepath); merged = {**defaults, **conf}
TableFile ==
  /\ mPc = "merging"
  /\ mImpl = "load_table_configs"
  /\ LET r == ConfigManager_load_json(mFs, mSelfVars, mFrags[2], TRUE)
     IN IF r.err # NoErr
          THEN /\ mErr' = r.err
               /\ mPc' = "raised"
               /\ UNCHANGED <<mLoaded, mConf>>
          ELSE /\ mLoaded' = Append(mLoaded, r.data)
               /\ mConf' = Update(mConf, r.data.v)
               /\ mPc' = "done"
               /\ UNCHANGED mErr
  /\ UNCHANGED <<mImpl, mFs, mFolder, mSelfVars, mExtra, mFrags>>

----------------------------------------------------------------------------
(* Validators: error_handler.py.  The context argument of a validator is the
   text its message starts with; the model keeps it in the error's names. *)

\* A validator that reports the first missing field only (a bug the code does
\* not have).
validate_required_fields_first(data, required_fields, context) ==
  LET missing_fields == SelectSeq(required_fields, LAMBDA f : f \notin DOMAIN data)
  IN IF Len(missing_fields) > 0
       THEN Err("ValueError", "validate_required_fields", context,
                <<Head(missing_fields)>>)
       ELSE NoErr

\* ErrorHandler.validate_required_fields
validate_required_fields(data, required_fields, context) ==
  LET missing_fields == SelectSeq(required_fields, LAMBDA f : f \notin DOMAIN data)
  IN IF Len(missing_fields) > 0
       THEN Err("ValueError", "validate_required_fields", context, missing_fields)
       ELSE NoErr

\* ErrorHandler.validate_field_structure
validate_field_structure(data, field_name, required_subfields, context) ==
  IF field_name \notin DOMAIN data
    THEN Err("ValueError", "validate_field_structure", context, <<field_name>>)
  ELSE IF data[field_name].t # "dict"
    THEN Err("ValueError", "validate_field_structure", context, <<field_name, "must be a dictionary">>)
  ELSE LET missing_subfields ==
             SelectSeq(required_subfields, LAMBDA f : f \notin DOMAIN data[field_name].v)
       IN IF Len(missing_subfields) > 0
            THEN Err("ValueError", "validate_field_structure", context,
                     <<field_name>> \o missing_subfields)
            ELSE NoErr

\* ErrorHandler.validate_enum_value
validate_enum_value(value, valid_values, field_name, context) ==
  IF value \notin valid_values
    THEN Err("ValueError", "validate_enum_value", context, <<field_name>>)
    ELSE NoErr

\* ValidationDecorators.validate_service_name: the check the wrapper makes on
\* the service name before calling the wrapped function.
valid_services ==
  {"policies", "dynamodb", "ws_apis", "ws_routes", "lambda_configs", "defaults"}

validate_service_name(service_value) ==
  validate_enum_value(service_value, valid_services, "service_name", <<"Service">>)

\* A validate_lambda_exists that accepts every name (a bug the code does not have).
validate_lambda_exists_accepting(lambda_name, lambdas, context) == NoErr

\* ErrorHandler.validate_lambda_exists: lambdas is the registry name -> function.
validate_lambda_exists(lambda_name, lambdas, context) ==
  IF ~(lambda_name.t = "str" /\ lambda_name.v \in DOMAIN lambdas)
    THEN Err("KeyError", "validate_lambda_exists",
             IF lambda_name.t = "str" THEN <<lambda_name.v>> ELSE <<>>, <<>>)
    ELSE NoErr

\* ErrorHandler.validate_config_files_provided
validate_config_files_provided(config_files, context) ==
  IF Len(config_files) = 0
    THEN Err("ValueError", "validate_config_files_provided", <<>>, <<context>>)
    ELSE NoErr

\* ErrorHandler.validate_configs_found
validate_configs_found(configs, context) ==
  IF Len(configs) = 0
    THEN Err("ValueError", "validate_configs_found", <<>>, <<context>>)
    ELSE NoErr

----------------------------------------------------------------------------
(* Functions and their grants: lambda_builder.py *)

SupportedRuntimes == {s_python312, s_python311, s_python310, s_nodejs18, s_nodejs20}

\* runtime_from(s): [err, runtime]
\* A lookup that compares the identifier as written (a bug the code does not
\* have).
runtime_from_exact(s) ==
  LET t == IF Truthy(s) THEN s.v ELSE s_python312
  IN IF t \notin SupportedRuntimes
       THEN [err |-> Err("ValueError", "runtime_from", <<t>>, <<>>), runtime |-> <<>>]
       ELSE [err |-> NoErr, runtime |-> t]

runtime_from(s) ==
  LET t == Lower(IF Truthy(s) THEN s.v ELSE s_python312)
  IN IF t \notin SupportedRuntimes
       THEN [err |-> Err("ValueError", "runtime_from", <<t>>, <<>>), runtime |-> <<>>]
       ELSE [err |-> NoErr, runtime |-> t]

\* A builder under which a second construct of the same id takes the place
\* of the first (what the construct tree does not allow).
build_lambda_function_replacing(built, logical_name, conf) ==
  LET rt == runtime_from(Get(conf, "runtime"))
  IN IF rt.err # NoErr THEN [err |-> rt.err, fn |-> Null]
     ELSE [err |-> NoErr,
           fn |-> [name |-> logical_name,
                   runtime |-> rt.runtime,
                   handler |-> GetOr(conf, "handler", Str(s_app_handler)),
                   memory |-> GetOr(conf, "memory", Num(256)),
                   timeout |-> GetOr(conf, "timeout", Num(10)),
                   code_path |-> conf["code_path"]]]

\* build_lambda_function(scope, logical_name, conf): [err, fn].  built is the set
\* of logical names already used under the scope: a construct id is unique
\* among its siblings.
build_lambda_function(built, logical_name, conf) ==
  LET rt == runtime_from(Get(conf, "runtime"))
  IN IF rt.err # NoErr THEN [err |-> rt.err, fn |-> Null]
     ELSE IF logical_name \in built
       THEN [err |-> Err("RuntimeError", "construct_id", <<logical_name>>, <<>>), fn |-> Null]
     ELSE [err |-> NoErr,
           fn |-> [name |-> logical_name,
                   runtime |-> rt.runtime,
                   handler |-> GetOr(conf, "handler", Str(s_app_handler)),
                   memory |-> GetOr(conf, "memory", Num(256)),
                   timeout |-> GetOr(conf, "timeout", Num(10)),
                   code_path |-> conf["code_path"]]]

\* The access level of one grant entry: (g.get("access") or "readWrite").lower(),
\* then read, write, or anything else as read-write.
AccessOf(g) ==
  LET access == Lower(IF Truthy(Get(g, "access")) THEN Get(g, "access").v ELSE s_readWrite)
  IN IF access = s_read THEN "read"
     ELSE IF access = s_write THEN "write"
     ELSE "readWrite"

\* A grant_table_access that passes over an entry whose table is not registered
\* (a bug the code does not have).
RECURSIVE grant_table_access_skipping(_, _, _)
grant_table_access_skipping(fn, grants, tables) ==
  IF grants = <<>> THEN [err |-> NoErr, applied |-> {}]
  ELSE LET g == Head(grants).v
           rest == grant_table_access_skipping(fn, Tail(grants), tables)
       IN IF g["table"].v \notin DOMAIN tables THEN rest
          ELSE [err |-> rest.err,
                applied |-> {[fn |-> fn, table |-> g["table"].v, access |-> AccessOf(g)]}
                              \cup rest.applied]

\* grant_table_access(fn, grants, tables): [err, applied].  applied holds the
\* grants made before the loop ended or raised.
RECURSIVE grant_table_access(_, _, _)
grant_table_access(fn, grants, tables) ==
  IF grants = <<>> THEN [err |-> NoErr, applied |-> {}]
  ELSE LET g == Head(grants).v
       IN IF "table" \notin DOMAIN g
            THEN [err |-> Err("KeyError", "g[table]", <<>>, <<"table">>), applied |-> {}]
          ELSE IF ~(g["table"].t = "str" /\ g["table"].v \in DOMAIN tables)
            THEN [err |-> Err("KeyError", "grant_table_access",
                              IF g["table"].t = "str" THEN <<g["table"].v>> ELSE <<>>, <<>>),
                  applied |-> {}]
          ELSE LET rest == grant_table_access(fn, Tail(grants), tables)
               IN [err |-> rest.err,
                   applied |-> {[fn |-> fn, table |-> g["table"].v, access |-> AccessOf(g)]}
                                 \cup rest.applied]

\* conf.get("dynamodb_access", []) as the list the loop `for g in grants or []` runs over.
GrantList(conf) ==
  LET x == GetOr(conf, "dynamodb_access", List(<<>>))
  IN IF Truthy(x) THEN x.v ELSE <<>>

\* resolve_policy_file(policy_file, folder): <<>> for None, else the path.  A
\* policy_file is one file name.
resolve_policy_file(fs, policy_file, folder) ==
  IF ~Truthy(policy_file) THEN <<>>
  ELSE IF IsFile(fs, folder \o <<policy_file.v>>) THEN folder \o <<policy_file.v>>
  ELSE IF IsFile(fs, CONFIG_ROOT \o <<policy_file.v>>) THEN CONFIG_ROOT \o <<policy_file.v>>
  ELSE <<policy_file.v>>

----------------------------------------------------------------------------
(* Text constants of tables, routes and policies *)

s_table == <<"t", "a", "b", "l", "e">>   \* table
s_STRING == <<"S", "T", "R", "I", "N", "G">>   \* STRING
s_NUMBER == <<"N", "U", "M", "B", "E", "R">>   \* NUMBER
s_BINARY == <<"B", "I", "N", "A", "R", "Y">>   \* BINARY
s_pk == <<"p", "k">>   \* pk
s_messages_env == <<"m", "e", "s", "s", "a", "g", "e", "s", "-", "$", "{", "E", "n", "v", "N", "a", "m", "e", "}">>   \* messages-${EnvName}
s_PAY_PER_REQUEST == <<"P", "A", "Y", "_", "P", "E", "R", "_", "R", "E", "Q", "U", "E", "S", "T">>   \* PAY_PER_REQUEST
s_PROVISIONED == <<"P", "R", "O", "V", "I", "S", "I", "O", "N", "E", "D">>   \* PROVISIONED
s_alias_m == <<"a", "l", "i", "a", "s", "/", "m">>   \* alias/m
s_connect_json == <<"c", "o", "n", "n", "e", "c", "t", ".", "j", "s", "o", "n">>   \* connect.json
s_default_json == <<"d", "e", "f", "a", "u", "l", "t", ".", "j", "s", "o", "n">>   \* default.json
s_dollar_connect == <<"$", "c", "o", "n", "n", "e", "c", "t">>   \* $connect
s_dollar_default == <<"$", "d", "e", "f", "a", "u", "l", "t">>   \* $default
s_ghost == <<"g", "h", "o", "s", "t">>   \* ghost
s_http == <<"h", "t", "t", "p">>   \* http
s_admin == <<"a", "d", "m", "i", "n">>   \* admin
s_chat_api_env == <<"c", "h", "a", "t", "-", "$", "{", "E", "n", "v", "N", "a", "m", "e", "}">>   \* chat-${EnvName}
s_rse == <<"$", "r", "e", "q", "u", "e", "s", "t", ".", "b", "o", "d", "y", ".", "a", "c", "t", "i", "o", "n">>   \* $request.body.action
s_ruby == <<"r", "u", "b", "y", "3", ".", "3">>   \* ruby3.3
s_Allow == <<"A", "l", "l", "o", "w">>   \* Allow
s_action_mc == <<"e", "x", "e", "c", "u", "t", "e", "-", "a", "p", "i", ":", "M", "a", "n", "a", "g", "e", "C", "o", "n", "n", "e", "c", "t", "i", "o", "n", "s">>   \* execute-api:ManageConnections
s_res_env == <<"a", "r", "n", ":", "a", "w", "s", ":", "l", "o", "g", "s", ":", ":", ":", "$", "{", "E", "n", "v", "N", "a", "m", "e", "}">>   \* arn:aws:logs:::${EnvName}

----------------------------------------------------------------------------
(* Policies: policy_builder.py.  An attached policy is [role, kind, name, doc];
   a role is named by the function that owns it. *)

\* _ensure_list
EnsureList(obj) == IF obj.t = "list" THEN obj.v ELSE <<obj>>

\* The checks of one statement of an inline policy (the body of the inner loop).
StatementError(s, name) ==
  IF s.t # "dict" THEN Err("TypeError", "validate_type", <<>>, <<name, "statement">>)
  ELSE LET e == validate_required_fields(s.v, <<"Effect", "Action">>, <<>>)
       IN IF e # NoErr THEN e
          ELSE IF "Resource" \notin DOMAIN s.v /\ "NotResource" \notin DOMAIN s.v
            THEN Err("ValueError", "_validate_config", <<>>, <<name, "Resource or NotResource">>)
            ELSE NoErr

RECURSIVE StatementsError(_, _)
StatementsError(lst, name) ==
  IF lst = <<>> THEN NoErr
  ELSE LET e == StatementError(Head(lst), name)
       IN IF e # NoErr THEN e ELSE StatementsError(Tail(lst), name)

\* The checks of one inline policy (the body of the outer loop).
InlineEntryError(name, stmts) ==
  IF name = "" THEN Err("ValueError", "validate_string_not_empty", <<>>, <<name>>)
  ELSE IF Len(EnsureList(stmts)) = 0
    THEN Err("ValueError", "validate_list_not_empty", <<>>, <<name>>)
  ELSE StatementsError(EnsureList(stmts), name)

\* A set of keys as a sequence (the model's dictionaries keep no key order).
RECURSIVE SetToSeq(_)
SetToSeq(S) ==
  IF S = {} THEN <<>>
  ELSE LET x == CHOOSE y \in S : TRUE IN <<x>> \o SetToSeq(S \ {x})

\* The first error among the inline policies.
InlineError(inline) ==
  LET errs == {InlineEntryError(n, inline[n]) : n \in DOMAIN inline} \ {NoErr}
  IN IF errs = {} THEN NoErr ELSE CHOOSE e \in errs : TRUE

\* A validation that names one of the extra keys only (a bug the code does
\* not have).
_validate_config_one_extra(raw) ==
  IF raw.t # "dict" THEN Err("TypeError", "validate_type", <<>>, <<"policy config">>)
  ELSE IF DOMAIN raw.v \ {"managed", "inline"} # {}
    THEN Err("ValueError", "Unknown keys in policy config", <<>>,
             <<CHOOSE k \in DOMAIN raw.v \ {"managed", "inline"} : TRUE>>)
  ELSE NoErr

\* _validate_config(raw): the error it raises, NoErr when it returns.
_validate_config(raw) ==
  IF raw.t # "dict" THEN Err("TypeError", "validate_type", <<>>, <<"policy config">>)
  ELSE IF DOMAIN raw.v \ {"managed", "inline"} # {}
    THEN Err("ValueError", "Unknown keys in policy config", <<>>,
             SetToSeq(DOMAIN raw.v \ {"managed", "inline"}))
  ELSE IF "managed" \in DOMAIN raw.v /\ raw.v["managed"].t # "list"
    THEN Err("TypeError", "validate_type", <<>>, <<"managed">>)
  ELSE IF GetOr(raw.v, "inline", Dict(EmptyDict)).t # "dict"
    THEN Err("TypeError", "validate_type", <<>>, <<"inline">>)
  ELSE InlineError(GetOr(raw.v, "inline", Dict(EmptyDict)).v)

NoBaseDir == Null
BaseDir(path) == [t |-> "path", v |-> path]

\* The policy document apply_policies_to_role loads: [err, data].
LoadPolicy(fs, self_vars, filename, base_dir) ==
  IF base_dir # NoBaseDir
    THEN IF ~IsFile(fs, base_dir.v \o <<filename>>)
           THEN [err |-> Err("FileNotFoundError", "validate_file_exists",
                             base_dir.v \o <<filename>>, <<>>),
                 data |-> Null]
         ELSE IF fs[base_dir.v \o <<filename>>].content.t \in {"malformed", "text"}
           THEN [err |-> Err("JSONDecodeError", "json.load", base_dir.v \o <<filename>>, <<>>),
                 data |-> Null]
         ELSE [err |-> NoErr,
               data |-> ConfigManager_expand_placeholders(
                          self_vars, fs[base_dir.v \o <<filename>>].content, NoneVars)]
    ELSE load_config(fs, self_vars, "policies", filename)

\* _attach_managed and _attach_inline on a validated document: [err, attached].
\* An inline policy is a construct under the role: its id Inline-<name> is
\* unique there.
AttachPolicies(attached, role, raw) ==
  LET managed == IF "managed" \in DOMAIN raw.v
                   THEN {[role |-> role, kind |-> "managed", name |-> "",
                          doc |-> raw.v["managed"].v[i]] : i \in DOMAIN raw.v["managed"].v}
                   ELSE {}
      inline == GetOr(raw.v, "inline", Dict(EmptyDict)).v
      clash == {n \in DOMAIN inline :
                  \E a \in attached : a.role = role /\ a.kind = "inline" /\ a.name = n}
  IN IF clash # {}
       THEN [err |-> Err("RuntimeError", "construct_id", <<role>>, SetToSeq(clash)),
             attached |-> attached \cup managed]
       ELSE [err |-> NoErr,
             attached |-> attached \cup managed \cup
                {[role |-> role, kind |-> "inline", name |-> n,
                  doc |-> List(EnsureList(inline[n]))] : n \in DOMAIN inline}]

\* An application that attaches the managed policies before it validates the
\* document (an order the code does not have).
ApplyLoadedManagedFirst(attached, role, p) ==
  IF p.err # NoErr THEN [err |-> p.err, attached |-> attached]
  ELSE IF _validate_config(p.data) # NoErr
    THEN [err |-> _validate_config(p.data),
          attached |-> attached \cup
             (IF p.data.t = "dict" /\ "managed" \in DOMAIN p.data.v
                   /\ p.data.v["managed"].t = "list"
                THEN {[role |-> role, kind |-> "managed", name |-> "",
                       doc |-> p.data.v["managed"].v[i]] : i \in DOMAIN p.data.v["managed"].v}
                ELSE {})]
  ELSE AttachPolicies(attached, role, p.data)

\* apply_policies_to_role from _validate_config(raw) on, p being what the
\* loading gave.
ApplyLoaded(attached, role, p) ==
  IF p.err # NoErr THEN [err |-> p.err, attached |-> attached]
  ELSE IF _validate_config(p.data) # NoErr
    THEN [err |-> _validate_config(p.data), attached |-> attached]
  ELSE AttachPolicies(attached, role, p.data)

\* apply_policies_to_role(role, filename, base_dir): [err, attached].  self_vars
\* is the variable set of the ConfigManager it creates for role.stack.
apply_policies_to_role(fs, self_vars, attached, role, filename, base_dir) ==
  ApplyLoaded(attached, role, LoadPolicy(fs, self_vars, filename, base_dir))

----------------------------------------------------------------------------
(* Tables: dynamodb_builder.py *)

AttrTypes == {s_STRING, s_NUMBER, s_BINARY}

\* to_attr_type(s): [err, type]; the dictionary lookup raises KeyError.
to_attr_type(s) ==
  LET t == Upper(IF Truthy(s) THEN s.v ELSE <<>>)
  IN IF t \notin AttrTypes
       THEN [err |-> Err("KeyError", "to_attr_type", <<t>>, <<>>), type |-> <<>>]
       ELSE [err |-> NoErr, type |-> t]

\* Path(filepath).stem: the name without its last suffix.
RECURSIVE Stem(_)
Stem(name) ==
  IF Len(name) <= 1 THEN name
  ELSE IF name[Len(name)] = "." THEN SubSeq(name, 1, Len(name) - 1)
  ELSE IF \E i \in 2..Len(name) : name[i] = "."
    THEN Stem(SubSeq(name, 1, Len(name) - 1))
    ELSE name

\* build_table(scope, name, conf, env_name): [err, table], with the decorator's
\* required-field check first.  built is the set of table names already used
\* under the scope.  The inputs carry no stream and no secondary index.
build_table(built, name, conf, env_name) ==
  LET ctx == <<name>>
      e1 == validate_required_fields(conf,
              <<"table_name", "partition_key", "billing_mode", "pitr", "kms_alias">>, ctx)
      e2 == validate_field_structure(conf, "partition_key", <<"name", "type">>, ctx)
      e3 == IF Truthy(Get(conf, "sort_key"))
              THEN validate_field_structure(conf, "sort_key", <<"name", "type">>, ctx)
              ELSE NoErr
  IN IF e1 # NoErr THEN [err |-> e1, table |-> Null]
     ELSE IF e2 # NoErr THEN [err |-> e2, table |-> Null]
     ELSE IF e3 # NoErr THEN [err |-> e3, table |-> Null]
     ELSE IF to_attr_type(conf["partition_key"].v["type"]).err # NoErr
       THEN [err |-> to_attr_type(conf["partition_key"].v["type"]).err, table |-> Null]
     ELSE IF name \in built
       THEN [err |-> Err("RuntimeError", "construct_id", <<name>>, <<>>), table |-> Null]
     ELSE [err |-> NoErr,
           table |-> [name |-> name,
                      table_name |-> conf["table_name"],
                      partition_key |-> [name |-> conf["partition_key"].v["name"],
                                         type |-> to_attr_type(conf["partition_key"].v["type"]).type],
                      billing_mode |-> IF Upper(conf["billing_mode"].v) = s_PROVISIONED
                                         THEN "PROVISIONED" ELSE "PAY_PER_REQUEST",
                      removal_policy |-> IF env_name = s_main THEN "RETAIN" ELSE "DESTROY"]]

\* The loading loop of DynamoTables.__init__: [err, configs].
RECURSIVE LoadTableConfigs(_, _, _)

\* The loop after its first file was loaded with outcome r.
LoadTableRest(fs, self_vars, config_files, r) ==
  IF r.err # NoErr THEN [err |-> r.err, configs |-> <<>>]
  ELSE LET rest == LoadTableConfigs(fs, self_vars, Tail(config_files))
       IN [err |-> rest.err,
           configs |-> <<[filepath |-> Head(config_files), conf |-> r.data.v]>>
                         \o rest.configs]

LoadTableConfigs(fs, self_vars, config_files) ==
  IF config_files = <<>> THEN [err |-> NoErr, configs |-> <<>>]
  ELSE LoadTableRest(fs, self_vars, config_files,
                     load_config(fs, self_vars, "dynamodb", Head(config_files)))

\* logical_name = conf.get("name") or Path(filepath).stem if filepath else "table"
TableLogicalName(conf, filepath) ==
  IF Len(filepath) > 0
    THEN IF Truthy(Get(conf, "name")) THEN Get(conf, "name").v ELSE Stem(filepath)
    ELSE s_table

\* The building loop of DynamoTables.__init__: [err, tables], tables the
\* registry logical name -> table as far as it was filled.
RECURSIVE BuildTables(_, _, _)

\* The loop after its first table was built with outcome b.
BuildTablesRest(table_configs, env_name, tables, logical_name, b) ==
  IF b.err # NoErr THEN [err |-> b.err, tables |-> tables]
  ELSE BuildTables(Tail(table_configs), env_name, VarsUpdate(tables, logical_name :> b.table))

BuildTables(table_configs, env_name, tables) ==
  IF table_configs = <<>> THEN [err |-> NoErr, tables |-> tables]
  ELSE BuildTablesRest(
         table_configs, env_name, tables,
         TableLogicalName(Head(table_configs).conf, Head(table_configs).filepath),
         build_table(DOMAIN tables,
                     TableLogicalName(Head(table_configs).conf, Head(table_configs).filepath),
                     Head(table_configs).conf, env_name))

\* DynamoTables.__init__ after its loading loop, which gave l.
TablesOf(l, env_name) ==
  IF l.err # NoErr THEN [err |-> l.err, tables |-> NoVars]
  ELSE IF validate_configs_found(l.configs, "table") # NoErr
    THEN [err |-> validate_configs_found(l.configs, "table"), tables |-> NoVars]
  ELSE BuildTables(l.configs, env_name, NoVars)

\* DynamoTables.__init__ after its ConfigManager exists: [err, tables].
DynamoTables_init(fs, self_vars, env_name, config_files) ==
  IF validate_config_files_provided(config_files, "DynamoTables") # NoErr
    THEN [err |-> validate_config_files_provided(config_files, "DynamoTables"),
          tables |-> NoVars]
  ELSE TablesOf(LoadTableConfigs(fs, self_vars, config_files), env_name)

----------------------------------------------------------------------------
(* WebSocket APIs: ws_api_builder.py and the discovery of config_manager.py *)

\* ConfigManager.find_api_directories(): [err, dirs]
find_api_directories(fs) ==
  LET apis_dir == get_config_path("ws_apis", <<>>).path
  IN IF ~IsDir(fs, apis_dir)
       THEN [err |-> Err("FileNotFoundError", "find_api_directories", apis_dir, <<>>),
             dirs |-> <<>>]
       ELSE [err |-> NoErr,
             dirs |-> SortedPaths({d \in Children(fs, apis_dir) :
                                      /\ IsDir(fs, d)
                                      /\ IsFile(fs, d \o <<s_api_json>>)
                                      /\ IsDir(fs, d \o <<s_routes>>)})]

\* ConfigManager.find_api_dirs(config_type), which WebSocketApis calls
\* (ws_api_builder.py line 277).  config_manager.py defines no method of that
\* name (only find_api_directories, without argument); this is the discovery
\* the specification describes: the API folders under the directory of
\* config_type, sorted, each holding api.json and routes/.
find_api_dirs(fs, config_type) ==
  LET p == get_config_path(config_type, <<>>)
  IN IF p.err # NoErr THEN [err |-> p.err, dirs |-> <<>>]
     ELSE IF ~IsDir(fs, p.path)
       THEN [err |-> Err("FileNotFoundError", "find_api_dirs", p.path, <<>>), dirs |-> <<>>]
     ELSE [err |-> NoErr,
           dirs |-> SortedPaths({d \in Children(fs, p.path) :
                                    /\ IsDir(fs, d)
                                    /\ IsFile(fs, d \o <<s_api_json>>)
                                    /\ IsDir(fs, d \o <<s_routes>>)})]

\* A route listing that takes a missing routes directory for an empty one (a
\* bug the code does not have).
find_route_files_lenient(fs, api_name) ==
  [err |-> NoErr,
   files |-> SortedPaths({q \in Descendants(fs, get_config_path("ws_apis", <<>>).path
                                                   \o <<api_name, s_routes>>) :
                             GlobJson(Basename(q))})]

\* ConfigManager.find_route_files(api_name): [err, files]
find_route_files(fs, api_name) ==
  LET routes_dir == get_config_path("ws_apis", <<>>).path \o <<api_name, s_routes>>
  IN IF ~IsDir(fs, routes_dir)
       THEN [err |-> Err("FileNotFoundError", "find_route_files", routes_dir, <<>>),
             files |-> <<>>]
       ELSE [err |-> NoErr,
             files |-> SortedPaths({q \in Descendants(fs, routes_dir) :
                                       GlobJson(Basename(q))})]

\* build_websocket_api(scope, logical_name, conf): [err, api]
build_websocket_api(logical_name, conf) ==
  LET e == validate_required_fields(conf, <<"name", "route_selection_expression">>,
                                    <<logical_name>>)
  IN IF e # NoErr THEN [err |-> e, api |-> Null]
     ELSE [err |-> NoErr,
           api |-> [id |-> logical_name, api_name |-> conf["name"],
                    route_selection_expression |-> conf["route_selection_expression"]]]

\* build_websocket_stage(scope, api, conf): [err, stage]
build_websocket_stage(api, conf) ==
  LET e1 == validate_required_fields(conf, <<"stage">>, <<api>>)
      e2 == validate_field_structure(conf, "stage", <<"name", "auto_deploy">>, <<api>>)
  IN IF e1 # NoErr THEN [err |-> e1, stage |-> Null]
     ELSE IF e2 # NoErr THEN [err |-> e2, stage |-> Null]
     ELSE [err |-> NoErr,
           stage |-> [api |-> api, stage_name |-> conf["stage"].v["name"],
                      auto_deploy |-> conf["stage"].v["auto_deploy"]]]

\* validate_route_config(conf, route_file) of error_handler.py: the error it
\* raises, NoErr when it returns.
validate_route_config(conf, route_file) ==
  LET e1 == validate_required_fields(conf, <<"route_key", "integration">>, route_file)
      e2 == validate_field_structure(conf, "integration", <<"type", "lambda_name">>, route_file)
      e3 == validate_enum_value(conf["integration"].v["type"], {Str(s_lambda)}, "type",
                                route_file)
  IN IF e1 # NoErr THEN e1
     ELSE IF e2 # NoErr THEN e2
     ELSE e3

\* A turn that looks the function up before it checks the integration type
\* (an order the code does not have).
RouteFromLambdaFirst(lambdas, added, api, route_file, l) ==
  LET rc == l.data.v
      e1 == validate_required_fields(rc, <<"route_key", "integration">>, route_file)
      e2 == validate_field_structure(rc, "integration", <<"type", "lambda_name">>, route_file)
      integ == rc["integration"].v
      e3 == validate_enum_value(integ["type"], {Str(s_lambda)}, "type", route_file)
      e4 == validate_lambda_exists(integ["lambda_name"], lambdas, route_file)
      none == [api |-> api, route_key |-> Null, lambda |-> Null]
  IN IF l.err # NoErr THEN [err |-> l.err, route |-> none]
     ELSE IF e1 # NoErr THEN [err |-> e1, route |-> none]
     ELSE IF e2 # NoErr THEN [err |-> e2, route |-> none]
     ELSE IF e4 # NoErr THEN [err |-> e4, route |-> none]
     ELSE IF e3 # NoErr THEN [err |-> e3, route |-> none]
     ELSE [err |-> NoErr,
           route |-> [api |-> api, route_key |-> rc["route_key"],
                      lambda |-> integ["lambda_name"]]]

\* One turn of the loop of add_routes_from_dir after the route file was
\* loaded with outcome l: [err, route].  added is the set of routes the APIs
\* already have; a route is a construct under its API, its id made of the
\* route key.
RouteFrom(lambdas, added, api, route_file, l) ==
  LET rc == l.data.v
      e1 == validate_required_fields(rc, <<"route_key", "integration">>, route_file)
      e2 == validate_field_structure(rc, "integration", <<"type", "lambda_name">>, route_file)
      integ == rc["integration"].v
      e3 == validate_enum_value(integ["type"], {Str(s_lambda)}, "type", route_file)
      e4 == validate_lambda_exists(integ["lambda_name"], lambdas, route_file)
      none == [api |-> api, route_key |-> Null, lambda |-> Null]
  IN IF l.err # NoErr THEN [err |-> l.err, route |-> none]
     ELSE IF e1 # NoErr THEN [err |-> e1, route |-> none]
     ELSE IF e2 # NoErr THEN [err |-> e2, route |-> none]
     ELSE IF e3 # NoErr THEN [err |-> e3, route |-> none]
     ELSE IF e4 # NoErr THEN [err |-> e4, route |-> none]
     ELSE IF ~(integ["lambda_name"].t = "str" /\ integ["lambda_name"].v \in DOMAIN lambdas)
       THEN [err |-> Err("KeyError", "lambdas[lambda_name]", <<>>, <<>>), route |-> none]
     ELSE IF \E r \in added : r.api = api /\ r.route_key = rc["route_key"]
       THEN [err |-> Err("RuntimeError", "construct_id", <<api>>, <<>>), route |-> none]
     ELSE [err |-> NoErr,
           route |-> [api |-> api, route_key |-> rc["route_key"],
                      lambda |-> integ["lambda_name"]]]

\* One turn of the loop of add_routes_from_dir: [err, route].
RouteOf(fs, self_vars, lambdas, added, api, route_file) ==
  RouteFrom(lambdas, added, api, route_file,
            load_config(fs, self_vars, "ws_routes", Basename(route_file)))

\* grant_manage_connections(api, lambdas, names, config_mgr): [err, attached],
\* attached holding what was attached before the loop ended or raised.
RECURSIVE grant_manage_connections(_, _, _, _, _)

\* The loop after one function's policy was applied with outcome a.
GrantRest(fs, self_vars, lambdas, names, a) ==
  IF a.err # NoErr THEN a
  ELSE grant_manage_connections(fs, self_vars, a.attached, lambdas, names)

grant_manage_connections(fs, self_vars, attached, lambdas, names) ==
  IF names = <<>> THEN [err |-> NoErr, attached |-> attached]
  ELSE IF validate_lambda_exists(Head(names), lambdas, <<>>) # NoErr
    THEN [err |-> validate_lambda_exists(Head(names), lambdas, <<>>), attached |-> attached]
  ELSE GrantRest(fs, self_vars, lambdas, Tail(names),
                 apply_policies_to_role(fs, self_vars, attached, Head(names).v,
                                        s_manage_connections_json, NoBaseDir))

----------------------------------------------------------------------------
(* The config store: the directory listing, the loaders with defaults and the
   table loader of config_manager.py.  A directory is read in the order the
   file system yields its entries (scan), which no caller controls. *)

s_a_json == <<"a", ".", "j", "s", "o", "n">>   \* a.json
s_b_json == <<"b", ".", "j", "s", "o", "n">>   \* b.json
s_c_json == <<"c", ".", "j", "s", "o", "n">>   \* c.json
s_B_json == <<"B", ".", "j", "s", "o", "n">>   \* B.json
s_notes_txt == <<"n", "o", "t", "e", "s", ".", "t", "x", "t">>   \* notes.txt

\* Path(config_dir).glob("*.json"): the entries of the directory whose name
\* matches, in the order the file system yields them.
RECURSIVE GlobJsonIn(_, _, _)
GlobJsonIn(fs, dir, scan) ==
  IF scan = <<>> THEN <<>>
  ELSE (IF dir \o <<Head(scan)>> \in DOMAIN fs /\ GlobJson(Head(scan))
          THEN <<dir \o <<Head(scan)>>>> ELSE <<>>)
         \o GlobJsonIn(fs, dir, Tail(scan))

\* A sorted() that returns its argument as it came.
InsertByStrKeepingOrder(done, p) == <<p>> \o done

\* sorted(str(fp) for fp in ...): p placed into the sorted sequence done.
RECURSIVE InsertByStr(_, _)
InsertByStr(done, p) ==
  IF done = <<>> THEN <<p>>
  ELSE IF StrLess(PathStr(p), PathStr(Head(done))) THEN <<p>> \o done
  ELSE <<Head(done)>> \o InsertByStr(Tail(done), p)

RECURSIVE SortedByStr(_)
SortedByStr(paths) ==
  IF paths = <<>> THEN <<>>
  ELSE InsertByStr(SortedByStr(Tail(paths)), Head(paths))

\* files = [f for f in files if Path(f).name not in exclude], when exclude is
\* not empty ({} stands for None and for the empty set).
RECURSIVE ExcludeNames(_, _)
ExcludeNames(files, exclude) ==
  IF files = <<>> THEN <<>>
  ELSE (IF exclude # {} /\ Basename(Head(files)) \in exclude THEN <<>> ELSE <<Head(files)>>)
         \o ExcludeNames(Tail(files), exclude)

\* list_config_files once the directory path is known.
ListIn(fs, scan, p, exclude) ==
  IF p.err # NoErr THEN [err |-> p.err, files |-> <<>>]
  ELSE IF ~IsDir(fs, p.path)
    THEN [err |-> Err("FileNotFoundError", "list_config_files", p.path, <<>>),
          files |-> <<>>]
  ELSE [err |-> NoErr,
        files |-> ExcludeNames(SortedByStr(GlobJsonIn(fs, p.path, scan)), exclude)]

\* ConfigManager.list_config_files(config_type, exclude): [err, files]
list_config_files(fs, scan, config_type, exclude) ==
  ListIn(fs, scan, get_config_path(config_type, <<>>), exclude)

TypeErr(rule) == Err("TypeError", rule, <<>>, <<>>)

\* A merge in which the defaults win over the file (a bug the code does not have).
MergeOverDefaultsWin(defaults, config) ==
  IF defaults.t # "dict" \/ config.t # "dict"
    THEN [err |-> TypeErr("not a mapping"), data |-> Null]
    ELSE [err |-> NoErr, data |-> Dict(Update(config.v, defaults.v))]

\* {**defaults, **config}: [err, data]
MergeOver(defaults, config) ==
  IF defaults.t # "dict" \/ config.t # "dict"
    THEN [err |-> TypeErr("not a mapping"), data |-> Null]
    ELSE [err |-> NoErr, data |-> Dict(Update(defaults.v, config.v))]

\* load_config_with_defaults after both files were loaded with outcomes c, d.
WithDefaults(c, d) ==
  IF c.err # NoErr THEN c
  ELSE IF d.err # NoErr THEN d
  ELSE MergeOver(d.data, c.data)

\* ConfigManager.load_config_with_defaults(config_type, filename, defaults_file):
\* [err, data]; defaults_file <<>> is None.
load_config_with_defaults(fs, self_vars, config_type, filename, defaults_file) ==
  IF Len(defaults_file) > 0
    THEN WithDefaults(load_config(fs, self_vars, config_type, filename),
                      load_config(fs, self_vars, config_type, defaults_file))
    ELSE load_config(fs, self_vars, config_type, filename)

\* The merging loop of load_table_configs: [err, configs].
RECURSIVE MergeEach(_, _, _, _)

\* The loop after the first file was loaded and merged with outcome m.
MergeEachRest(fs, self_vars, defaults, files, m) ==
  IF m.err # NoErr THEN [err |-> m.err, configs |-> <<>>]
  ELSE LET rest == MergeEach(fs, self_vars, defaults, Tail(files))
       IN [err |-> rest.err,
           configs |-> IF rest.err # NoErr THEN <<>>
                       ELSE <<[filepath |-> Head(files), conf |-> m.data]>> \o rest.configs]

\* merged = {**defaults, **conf} for the outcome r of load_json
MergedWith(defaults, r) ==
  IF r.err # NoErr THEN r ELSE MergeOver(defaults, r.data)

MergeEach(fs, self_vars, defaults, files) ==
  IF files = <<>> THEN [err |-> NoErr, configs |-> <<>>]
  ELSE MergeEachRest(fs, self_vars, defaults, files,
         MergedWith(defaults, ConfigManager_load_json(fs, self_vars, Head(files), TRUE)))

\* files of load_table_configs: the named files, or the listing of the tables
\* directory without the defaults file: [err, files].
TableFilesOf(fs, scan, config_files, defaults_file) ==
  IF Len(config_files) > 0
    THEN [err |-> NoErr,
          files |-> [i \in DOMAIN config_files |->
                       get_config_path("tables", config_files[i]).path]]
    ELSE list_config_files(fs, scan, "tables",
                           IF Len(defaults_file) > 0 THEN {defaults_file} ELSE {})

\* load_table_configs once defaults (outcome d) and files (outcome f) are known.
TableConfigsOf(fs, self_vars, d, f) ==
  IF d.err # NoErr THEN [err |-> d.err, configs |-> <<>>]
  ELSE IF f.err # NoErr THEN [err |-> f.err, configs |-> <<>>]
  ELSE MergeEach(fs, self_vars,
                 IF Truthy(d.data) THEN d.data ELSE Dict(EmptyDict), f.files)

\* ConfigManager.load_table_configs(config_files, defaults_file): [err, configs];
\* <<>> is None for both arguments.
load_table_configs(fs, scan, self_vars, config_files, defaults_file) ==
  TableConfigsOf(fs, self_vars,
                 IF Len(defaults_file) > 0
                   THEN load_config(fs, self_vars, "tables", defaults_file)
                   ELSE [err |-> NoErr, data |-> Dict(EmptyDict)],
                 TableFilesOf(fs, scan, config_files, defaults_file))

----------------------------------------------------------------------------
(* Assembly: ChatBackendStack and the three constructs it is made of, each of
   which is also an entry point of its own *)

VARIABLES
  entry,       \* the constructor that was called
  pc,          \* position in the running constructor
  err,         \* the exception that ended the run, NoErr while none
  result,      \* "returned" once the called constructor has returned
  context,     \* the CDK context: [odyssey, env_override]
  envName,     \* the env_name argument
  fs,          \* the file tree
  configFiles, \* the config_files argument of DynamoTables
  tables,      \* DynamoTables.tables: logical name -> table
  fleetTables, \* the tables argument of LambdaFleet
  fVars,       \* the local vars of LambdaFleet.__init__
  folders,     \* the folders its loop runs over
  fIdx,        \* the folder the loop is at
  fConf,       \* the local conf
  fFn,         \* the local fn
  fnBuilt,     \* the functions constructed under the fleet
  policies,    \* the policies attached to roles
  grants,      \* the table grants made: [fn, table, access]
  functions,   \* LambdaFleet.functions: logical name -> function
  wsLambdas,   \* the lambdas argument of WebSocketApis
  cmVars,      \* the vars of its ConfigManager
  apiDirs,     \* the API folders its loop runs over
  wIdx,        \* the API folder the loop is at
  apiConf,     \* the local api_conf
  routeFiles,  \* the route files of the API at hand
  rIdx,        \* the route file the inner loop is at
  apis,        \* WebSocketApis.apis: name -> API
  routes,      \* the routes added to APIs: [api, route_key, lambda]
  stages,      \* WebSocketApis.stages: name -> stage
  endpoints,   \* WebSocketApis.endpoints: name -> [api, stage_name]
  outputs,     \* ids of the CfnOutputs created
  chatEnv      \* the environment added to the chat function by the stack

asmVars ==
  <<entry, pc, err, result, context, envName, fs, configFiles, tables, fleetTables,
    fVars, folders, fIdx, fConf, fFn, fnBuilt, policies, grants, functions, wsLambdas,
    cmVars, apiDirs, wIdx, apiConf, routeFiles, rIdx, apis, routes, stages, endpoints,
    outputs, chatEnv>>

\* The stack the constructs live in.
AsmStack == [account |-> s_acct, region |-> s_eu_west_1, partition |-> s_aws]

\* Contexts: a complete one whose default environment is dev, and one that
\* lacks the account of dev.
CtxDev == [odyssey |-> OdysseyContext(TRUE, TRUE, TRUE, TRUE, TRUE), env_override |-> Null]
CtxNoAccount == [odyssey |-> OdysseyContext(TRUE, FALSE, TRUE, TRUE, TRUE), env_override |-> Null]

\* Table fragments.
TableOk ==
  Dict([table_name |-> Str(s_messages_env),
        partition_key |-> Dict([name |-> Str(s_pk), type |-> Str(s_STRING)]),
        billing_mode |-> Str(s_PAY_PER_REQUEST),
        pitr |-> Bool(TRUE),
        kms_alias |-> Str(s_alias_m)])

\* Function fragments (the config.json of a function folder).
FnPlain == Dict(EmptyDict)
FnRead ==
  Dict([dynamodb_access |-> List(<<Dict([table |-> Str(s_messages), access |-> Str(s_read)])>>)])
FnMixed ==
  Dict([dynamodb_access |->
          List(<<Dict([table |-> Str(s_messages), access |-> Str(s_write)]),
                 Dict([table |-> Str(s_sessions)])>>)])
FnPolicy == Dict([name |-> Str(s_fn_env), policy_file |-> Str(s_policy_json)])
FnBadRuntime == Dict([runtime |-> Str(s_ruby)])
FnNamed == Dict([name |-> Str(s_fn_env)])
FnChoices == {Absent, FnPlain, FnRead, FnMixed, FnPolicy, FnNamed, FnBadRuntime, Malformed}

\* Policy documents.
StatementOk ==
  Dict([Effect |-> Str(s_Allow), Action |-> Str(s_action_mc), Resource |-> Str(s_res_env)])
PolOk == Dict([inline |-> Dict([Logs |-> List(<<StatementOk>>)])])
PolExtra == Dict([inline |-> Dict([Logs |-> List(<<StatementOk>>)]), version |-> Num(1)])
McOk == Dict([inline |-> Dict([ManageConnections |-> List(<<StatementOk>>)])])

\* API and route fragments.
StageOk == Dict([name |-> Str(s_dev), auto_deploy |-> Bool(TRUE)])
ApiNoMc ==
  Dict([name |-> Str(s_chat_api_env), route_selection_expression |-> Str(s_rse),
        stage |-> StageOk])
ApiOk == Dict(VarsUpdate(ApiNoMc.v, [manage_connections_for |-> List(<<Str(s_chat)>>)]))
ApiMcGhost == Dict(VarsUpdate(ApiNoMc.v, [manage_connections_for |-> List(<<Str(s_ghost)>>)]))
ApiNoStage == Dict([name |-> Str(s_chat_api_env), route_selection_expression |-> Str(s_rse)])
Route(key, type, name) ==
  Dict([route_key |-> Str(key),
        integration |-> Dict([type |-> Str(type), lambda_name |-> Str(name)])])
RouteChat == Route(s_dollar_connect, s_lambda, s_chat)
RouteGhost == Route(s_dollar_connect, s_lambda, s_ghost)
RouteHttp == Route(s_dollar_connect, s_http, s_chat)
RouteNoInteg == Dict([route_key |-> Str(s_dollar_connect)])
RouteAuth == Route(s_dollar_default, s_lambda, s_auth)

\* The parts of a file tree.
FnFolderFs(name, conf, pol) ==
  IF conf = Absent THEN NoFiles
  ELSE (<<s_lambda_src, name>> :> DirNode)
         @@ (<<s_lambda_src, name, s_app_py>> :> FileNode(Text))
         @@ (<<s_lambda_src, name, s_config_json>> :> FileNode(conf))
         @@ OptionalFile(<<s_lambda_src, name, s_policy_json>>, pol)

LambdaFs(auth, chat, pol) ==
  (<<s_lambda_src>> :> DirNode) @@ FnFolderFs(s_auth, auth, pol) @@ FnFolderFs(s_chat, chat, pol)

ConfigsFs(table, mc) ==
  (<<s_cdk_project>> :> DirNode)
    @@ (CONFIG_ROOT :> DirNode)
    @@ (TablesDir :> DirNode)
    @@ (CONFIG_ROOT \o CONFIG_PATHS["policies"] :> DirNode)
    @@ OptionalFile(TablesDir \o <<s_messages_json>>, table)
    @@ OptionalFile(CONFIG_ROOT \o CONFIG_PATHS["policies"] \o <<s_manage_connections_json>>, mc)

WsDir == CONFIG_ROOT \o CONFIG_PATHS["ws_apis"]
RoutesDir == CONFIG_ROOT \o CONFIG_PATHS["ws_routes"]

\* An API folder with its own api.json and its routes directory.
ApiFolderFs(name, files) ==
  (WsDir \o <<name>> :> DirNode)
    @@ (WsDir \o <<name, s_api_json>> :> FileNode(ApiOk))
    @@ (WsDir \o <<name, s_routes>> :> DirNode)
    @@ [p \in {WsDir \o <<name, s_routes, f>> : f \in files} |->
          FileNode(IF Basename(p) = s_connect_json THEN RouteChat ELSE RouteAuth)]

RECURSIVE ApiFoldersFs(_, _)
ApiFoldersFs(names, files) ==
  IF names = {} THEN NoFiles
  ELSE LET n == CHOOSE x \in names : TRUE
       IN ApiFolderFs(n, files) @@ ApiFoldersFs(names \ {n}, files)

\* The directory of the API category: the API folders, and the files the
\* category paths of CONFIG_PATHS name (api.json and routes/ in the directory
\* itself).
WsFs(names, files, api, connect, default) ==
  (CONFIG_ROOT \o <<s_apis>> :> DirNode)
    @@ (WsDir :> DirNode)
    @@ ApiFoldersFs(names, files)
    @@ OptionalFile(WsDir \o <<s_api_json>>, api)
    @@ (IF connect = Absent /\ default = Absent THEN NoFiles ELSE RoutesDir :> DirNode)
    @@ OptionalFile(RoutesDir \o <<s_connect_json>>, connect)
    @@ OptionalFile(RoutesDir \o <<s_default_json>>, default)

\* Registries handed to a construct that is called on its own.
MkTable(name) == build_table({}, name, TableOk.v, s_dev).table
MkFn(name) ==
  build_lambda_function({}, name,
                        ApplyLambdaDefaults(EmptyDict, <<s_lambda_src, name>>)).fn
Registry(names, Mk(_)) == [n \in names |-> Mk(n)]

\* An exception raised in a constructor is caught nowhere (the builders and
\* the stack hold no try statement): the run ends where it is raised.  Swallow
\* is the handler the code does not have.
Swallow(e, next) == next
Propagate(e, next) == IF e # NoErr THEN "raised" ELSE next

\* The order of the statements of ChatBackendStack.__init__, of the loop body
\* of LambdaFleet.__init__ and of the loop body of WebSocketApis.__init__: the
\* position that follows a position.
StackNext(pos) ==
  CASE pos = "tables" -> "fleet"
    [] pos = "fleet" -> "ws"
    [] pos = "ws" -> "done"

FleetNext(pos) ==
  CASE pos = "fleet" -> "fleet_loop"
    [] pos = "fleet_loop" -> "fleet_build"
    [] pos = "fleet_build" -> "fleet_policy"
    [] pos = "fleet_policy" -> "fleet_grant"
    [] pos = "fleet_grant" -> "fleet_register"
    [] pos = "fleet_register" -> "fleet_loop"

\* An order that grants before the stage is built (not the code's).
\* A loop body that builds the stage before the routes (an order the code
\* does not have).
WsNextStageEarly(pos) ==
  CASE pos = "ws" -> "ws_loop"
    [] pos = "ws_loop" -> "ws_api"
    [] pos = "ws_api" -> "ws_stage"
    [] pos = "ws_stage" -> "ws_routes"
    [] pos = "ws_routes" -> "ws_route_loop"
    [] pos = "ws_route_loop" -> "ws_grant"
    [] pos = "ws_grant" -> "ws_endpoint"
    [] pos = "ws_endpoint" -> "ws_loop"

WsNextGrantEarly(pos) ==
  CASE pos = "ws" -> "ws_loop"
    [] pos = "ws_loop" -> "ws_api"
    [] pos = "ws_api" -> "ws_routes"
    [] pos = "ws_routes" -> "ws_route_loop"
    [] pos = "ws_route_loop" -> "ws_grant"
    [] pos = "ws_grant" -> "ws_stage"
    [] pos = "ws_stage" -> "ws_endpoint"
    [] pos = "ws_endpoint" -> "ws_loop"

WsNext(pos) ==
  CASE pos = "ws" -> "ws_loop"
    [] pos = "ws_loop" -> "ws_api"
    [] pos = "ws_api" -> "ws_routes"
    [] pos = "ws_routes" -> "ws_route_loop"
    [] pos = "ws_route_loop" -> "ws_stage"
    [] pos = "ws_stage" -> "ws_grant"
    [] pos = "ws_grant" -> "ws_endpoint"
    [] pos = "ws_endpoint" -> "ws_loop"

Entries ==
  {"ChatBackendStack", "DynamoTables", "LambdaFleet", "WebSocketApis", "add_routes_from_dir"}

StartOf(e) ==
  CASE e = "ChatBackendStack" -> "tables"
    [] e = "DynamoTables" -> "tables"
    [] e = "LambdaFleet" -> "fleet"
    [] e = "WebSocketApis" -> "ws"
    [] e = "add_routes_from_dir" -> "ws_routes"

\* Where a construct goes when its constructor returns: back into the stack,
\* or to its caller.
AfterConstruct(e, pos) == IF e = "ChatBackendStack" THEN StackNext(pos) ELSE "done"

\* Where add_routes_from_dir goes when it returns: to the constructor that
\* called it, or to its caller.
AfterRoutes(e) == IF e = "add_routes_from_dir" THEN "done" ELSE WsNext("ws_route_loop")

AsmIdle ==
  /\ entry = "none"
  /\ pc = "idle"
  /\ err = NoErr
  /\ result = "none"
  /\ context = [odyssey |-> Null, env_override |-> Null]
  /\ envName = s_dev
  /\ fs = NoFiles
  /\ configFiles = <<>>
  /\ tables = NoVars
  /\ fleetTables = NoVars
  /\ fVars = NoVars
  /\ folders = <<>>
  /\ fIdx = 1
  /\ fConf = EmptyDict
  /\ fFn = Null
  /\ fnBuilt = {}
  /\ policies = {}
  /\ grants = {}
  /\ functions = NoVars
  /\ wsLambdas = NoVars
  /\ cmVars = NoVars
  /\ apiDirs = <<>>
  /\ wIdx = 1
  /\ apiConf = EmptyDict
  /\ routeFiles = <<>>
  /\ rIdx = 1
  /\ apis = NoVars
  /\ routes = {}
  /\ stages = NoVars
  /\ endpoints = NoVars
  /\ outputs = {}
  /\ chatEnv = FALSE

\* The arguments and the file tree of a run, by the constructor called.
StackInputs ==
  /\ configFiles = <<s_messages_json>>
  /\ fleetTables = NoVars
  /\ wsLambdas = NoVars
  /\ \E t \in {TableOk, Absent}, c \in {FnRead, FnMixed}, a \in {ApiOk, Absent} :
        fs = ConfigsFs(t, McOk) @@ LambdaFs(Absent, c, Absent)
               @@ WsFs({s_chat}, {s_connect_json}, a,
                       IF a = Absent THEN Absent ELSE RouteChat, Absent)

TablesInputs ==
  /\ configFiles \in {<<>>, <<s_messages_json>>}
  /\ fleetTables = NoVars
  /\ wsLambdas = NoVars
  /\ \E t \in {TableOk, Absent} :
        fs = ConfigsFs(t, McOk) @@ LambdaFs(Absent, Absent, Absent)

FleetInputs ==
  /\ configFiles = <<>>
  /\ fleetTables \in {Registry(S, MkTable) : S \in {{}, {s_messages}, {s_messages, s_sessions}}}
  /\ wsLambdas = NoVars
  /\ \E a \in FnChoices, c \in FnChoices, p \in {PolOk, PolExtra, Absent} :
        fs = ConfigsFs(TableOk, McOk) @@ LambdaFs(a, c, p)

WsInputs ==
  /\ configFiles = <<>>
  /\ fleetTables = NoVars
  /\ wsLambdas \in {Registry(S, MkFn) : S \in {{}, {s_chat}, {s_auth, s_chat}}}
  /\ \E names \in {{}, {s_chat}, {s_admin, s_chat}},
        files \in {{}, {s_connect_json}, {s_connect_json, s_default_json}},
        a \in {ApiOk, ApiNoMc, ApiNoStage, ApiMcGhost, Absent},
        c \in {RouteChat, RouteGhost, RouteHttp, RouteNoInteg, Absent},
        m \in {McOk, Absent} :
        fs = ConfigsFs(TableOk, m) @@ WsFs(names, files, a, c, RouteAuth)

\* The ConfigManager variable set of the run's stack.
StackVars(ctx) == OdysseyCfg_vars(get_cfg_body(ctx).cfg, AsmStack, NoVars)

\* add_routes_from_dir called on its own: the API chat, a registry of
\* functions, and the ConfigManager of a stack whose context is complete.
RoutesInputs ==
  /\ context = CtxDev
  /\ configFiles = <<>>
  /\ fleetTables = NoVars
  /\ wsLambdas \in {Registry(S, MkFn) : S \in {{}, {s_chat}, {s_auth, s_chat}}}
  /\ \E names \in {{}, {s_chat}},
        files \in {{}, {s_connect_json}, {s_connect_json, s_default_json}},
        c \in {RouteChat, RouteGhost, RouteHttp, RouteNoInteg, Malformed, Absent},
        d \in {RouteAuth, RouteChat} :
        fs = ConfigsFs(TableOk, McOk) @@ WsFs(names, files, ApiOk, c, d)

AsmInit ==
  /\ entry \in Entries
  /\ pc = StartOf(entry)
  /\ err = NoErr
  /\ result = "none"
  /\ context \in {CtxDev, CtxNoAccount}
  /\ envName \in {s_dev, s_main}
  /\ CASE entry = "ChatBackendStack" -> StackInputs
       [] entry = "DynamoTables" -> TablesInputs
       [] entry = "LambdaFleet" -> FleetInputs
       [] entry = "WebSocketApis" -> WsInputs
       [] entry = "add_routes_from_dir" -> RoutesInputs
  /\ tables = NoVars
  /\ fVars = NoVars
  /\ folders = <<>>
  /\ fIdx = 1
  /\ fConf = EmptyDict
  /\ fFn = Null
  /\ fnBuilt = {}
  /\ policies = {}
  /\ grants = {}
  /\ functions = NoVars
  /\ cmVars = IF entry = "add_routes_from_dir" THEN StackVars(context) ELSE NoVars
  /\ apiDirs = IF entry = "add_routes_from_dir" THEN <<WsDir \o <<s_chat>>>> ELSE <<>>
  /\ wIdx = 1
  /\ apiConf = EmptyDict
  /\ routeFiles = <<>>
  /\ rIdx = 1
  /\ apis = NoVars
  /\ routes = {}
  /\ stages = NoVars
  /\ endpoints = NoVars
  /\ outputs = {}
  /\ chatEnv = FALSE

inputVars == <<entry, context, envName, fs, configFiles>>
fleetLocals == <<fVars, folders, fIdx, fConf, fFn>>
wsLocals == <<cmVars, apiDirs, wIdx, apiConf, routeFiles, rIdx>>
wsBuilt == <<apis, routes, stages, endpoints, outputs>>

\* DynamoTables.__init__, whole: ConfigManager(Stack.of(self)), the loading
\* loop, the building loop.  In the stack, config_files is ["messages.json"]
\* and the result is handed to LambdaFleet as tables=dyn.tables.
DynamoTablesNew ==
  /\ pc = "tables"
  /\ LET c == get_cfg_body(context)
         files == IF entry = "ChatBackendStack" THEN <<s_messages_json>> ELSE configFiles
         r == IF c.err # NoErr
                THEN [err |-> c.err, tables |-> NoVars]
                ELSE DynamoTables_init(fs, StackVars(context), envName, files)
     IN /\ err' = r.err
        /\ tables' = r.tables
  /\ fleetTables' = IF entry = "ChatBackendStack" /\ err' = NoErr THEN tables' ELSE fleetTables
  /\ pc' = Propagate(err', AfterConstruct(entry, "tables"))
  /\ result' = IF pc' = "done" THEN "returned" ELSE result
  /\ UNCHANGED <<inputVars, fleetLocals, fnBuilt, policies, grants, functions, wsLambdas,
                 wsLocals, wsBuilt, chatEnv>>

\* LambdaFleet.__init__ up to its loop: cfg = get_cfg(stack); vars =
\* cfg.vars(stack, extra={"EnvName": env_name}); self.functions = {};
\* find_lambda_dirs(root).
FleetStart ==
  /\ pc = "fleet"
  /\ LET c == get_cfg_body(context)
         d == find_lambda_dirs(fs, <<s_lambda_src>>)
     IN /\ err' = IF c.err # NoErr THEN c.err ELSE d.err
        /\ fVars' = IF c.err = NoErr
                      THEN OdysseyCfg_vars(c.cfg, AsmStack, k_EnvName :> envName)
                      ELSE fVars
        /\ folders' = IF err' = NoErr THEN d.dirs ELSE <<>>
  /\ pc' = Propagate(err', FleetNext("fleet"))
  /\ functions' = NoVars
  /\ fIdx' = 1
  /\ UNCHANGED <<inputVars, result, tables, fleetTables, fConf, fFn, fnBuilt, policies,
                 grants, wsLambdas, wsLocals, wsBuilt, chatEnv>>

\* conf = load_lambda_config_from_folder(folder, vars)
FleetLoad ==
  /\ pc = "fleet_loop"
  /\ fIdx <= Len(folders)
  /\ LET r == load_lambda_config_from_folder(fs, folders[fIdx], fVars)
     IN /\ err' = r.err
        /\ fConf' = IF err' = NoErr THEN r.conf ELSE fConf
  /\ pc' = Propagate(err', FleetNext("fleet_loop"))
  /\ UNCHANGED <<inputVars, result, tables, fleetTables, fVars, folders, fIdx, fFn, fnBuilt,
                 policies, grants, functions, wsLambdas, wsLocals, wsBuilt, chatEnv>>

\* logical_name = conf["name"]; fn = build_lambda_function(self, logical_name, conf)
FleetBuild ==
  /\ pc = "fleet_build"
  /\ LET b == build_lambda_function({f.name : f \in fnBuilt}, fConf["name"].v, fConf)
     IN /\ err' = b.err
        /\ fFn' = IF err' = NoErr THEN b.fn ELSE fFn
  /\ fnBuilt' = IF err' = NoErr THEN fnBuilt \cup {fFn'} ELSE fnBuilt
  /\ pc' = Propagate(err', FleetNext("fleet_build"))
  /\ UNCHANGED <<inputVars, result, tables, fleetTables, fVars, folders, fIdx, fConf,
                 policies, grants, functions, wsLambdas, wsLocals, wsBuilt, chatEnv>>

\* policy_file = resolve_policy_file(conf.get("policy_file"), folder); if
\* policy_file: apply_policies_to_role(fn.role, basename, base_dir=parent),
\* which creates a ConfigManager for the role's stack.
FleetPolicy ==
  /\ pc = "fleet_policy"
  /\ LET policy_file == resolve_policy_file(fs, Get(fConf, "policy_file"), folders[fIdx])
         a == IF Len(policy_file) > 0
                THEN apply_policies_to_role(fs, StackVars(context), policies, fFn.name,
                                            Basename(policy_file), BaseDir(Parent(policy_file)))
                ELSE [err |-> NoErr, attached |-> policies]
     IN /\ policies' = a.attached
        /\ cmVars' = IF Len(policy_file) > 0 THEN StackVars(context) ELSE cmVars
        /\ err' = a.err
  /\ pc' = Propagate(err', FleetNext("fleet_policy"))
  /\ UNCHANGED <<inputVars, result, tables, fleetTables, fleetLocals, fnBuilt, grants,
                 functions, wsLambdas, apiDirs, wIdx, apiConf, routeFiles, rIdx, wsBuilt,
                 chatEnv>>

\* grant_table_access(fn, conf.get("dynamodb_access", []), tables)
FleetGrant ==
  /\ pc = "fleet_grant"
  /\ LET g == grant_table_access(fFn.name, GrantList(fConf), fleetTables)
     IN /\ grants' = grants \cup g.applied
        /\ err' = g.err
  /\ pc' = Propagate(err', FleetNext("fleet_grant"))
  /\ UNCHANGED <<inputVars, result, tables, fleetTables, fleetLocals, fnBuilt, policies,
                 functions, wsLambdas, wsLocals, wsBuilt, chatEnv>>

\* self.functions[logical_name] = fn, and on to the next folder
FleetRegister ==
  /\ pc = "fleet_register"
  /\ functions' = VarsUpdate(functions, fFn.name :> fFn)
  /\ fIdx' = fIdx + 1
  /\ pc' = FleetNext("fleet_register")
  /\ UNCHANGED <<inputVars, err, result, tables, fleetTables, fVars, folders, fConf, fFn,
                 fnBuilt, policies, grants, wsLambdas, wsLocals, wsBuilt, chatEnv>>

\* The loop is over: the constructor returns.  In the stack, lambdas =
\* LambdaFleet(...).functions, the chat function gets TABLE_NAME when chat and
\* messages are registered, and lambdas is handed to WebSocketApis.
FleetReturn ==
  /\ pc = "fleet_loop"
  /\ fIdx > Len(folders)
  /\ pc' = AfterConstruct(entry, "fleet")
  /\ result' = IF pc' = "done" THEN "returned" ELSE result
  /\ wsLambdas' = IF entry = "ChatBackendStack" THEN functions ELSE wsLambdas
  /\ chatEnv' = IF entry = "ChatBackendStack"
                     /\ s_chat \in DOMAIN functions /\ s_messages \in DOMAIN tables
                  THEN TRUE ELSE chatEnv
  /\ UNCHANGED <<inputVars, err, tables, fleetTables, fleetLocals, fnBuilt, policies, grants,
                 functions, wsLocals, wsBuilt>>

\* The API folder the loop of WebSocketApis.__init__ is at: name = api_dir.name
ApiName == Basename(apiDirs[wIdx])

\* WebSocketApis.__init__ up to its loop: ConfigManager(Stack.of(self)), the
\* three empty registries, find_api_dirs("ws_apis").
WsStart ==
  /\ pc = "ws"
  /\ LET c == get_cfg_body(context)
         d == find_api_dirs(fs, "ws_apis")
     IN /\ err' = IF c.err # NoErr THEN c.err ELSE d.err
        /\ cmVars' = IF c.err = NoErr THEN StackVars(context) ELSE cmVars
        /\ apiDirs' = IF err' = NoErr THEN d.dirs ELSE <<>>
  /\ pc' = Propagate(err', WsNext("ws"))
  /\ apis' = NoVars
  /\ stages' = NoVars
  /\ endpoints' = NoVars
  /\ wIdx' = 1
  /\ UNCHANGED <<inputVars, result, tables, fleetTables, fleetLocals, fnBuilt, policies,
                 grants, functions, wsLambdas, apiConf, routeFiles, rIdx, routes, outputs,
                 chatEnv>>

\* api_conf = self.config_mgr.load_config("ws_apis", "api.json")
WsLoad ==
  /\ pc = "ws_loop"
  /\ wIdx <= Len(apiDirs)
  /\ LET l == load_config(fs, cmVars, "ws_apis", s_api_json)
     IN /\ err' = l.err
        /\ apiConf' = IF err' = NoErr THEN l.data.v ELSE apiConf
  /\ pc' = Propagate(err', WsNext("ws_loop"))
  /\ UNCHANGED <<inputVars, result, tables, fleetTables, fleetLocals, fnBuilt, policies,
                 grants, functions, wsLambdas, cmVars, apiDirs, wIdx, routeFiles, rIdx,
                 wsBuilt, chatEnv>>

\* api = build_websocket_api(self, name, api_conf); self.apis[name] = api
WsApi ==
  /\ pc = "ws_api"
  /\ LET b == build_websocket_api(ApiName, apiConf)
     IN /\ err' = b.err
        /\ apis' = IF err' = NoErr THEN VarsUpdate(apis, ApiName :> b.api) ELSE apis
  /\ pc' = Propagate(err', WsNext("ws_api"))
  /\ UNCHANGED <<inputVars, result, tables, fleetTables, fleetLocals, fnBuilt, policies,
                 grants, functions, wsLambdas, wsLocals, routes, stages, endpoints, outputs,
                 chatEnv>>

\* add_routes_from_dir, its start: created = []; route_files = find_route_files(api_name)
WsRoutesList ==
  /\ pc = "ws_routes"
  /\ LET f == find_route_files(fs, ApiName)
     IN /\ routeFiles' = f.files
        /\ err' = f.err
  /\ pc' = Propagate(err', IF Len(routeFiles') = 0 THEN AfterRoutes(entry)
                                                   ELSE WsNext("ws_routes"))
  /\ result' = IF pc' = "done" THEN "returned" ELSE result
  /\ rIdx' = 1
  /\ UNCHANGED <<inputVars, tables, fleetTables, fleetLocals, fnBuilt, policies,
                 grants, functions, wsLambdas, cmVars, apiDirs, wIdx, apiConf, wsBuilt,
                 chatEnv>>

\* add_routes_from_dir, one turn of its loop; after the last file it returns.
WsRoute ==
  /\ pc = "ws_route_loop"
  /\ rIdx <= Len(routeFiles)
  /\ LET r == RouteOf(fs, cmVars, wsLambdas, routes, ApiName, routeFiles[rIdx])
     IN /\ err' = r.err
        /\ routes' = IF err' = NoErr THEN routes \cup {r.route} ELSE routes
  /\ pc' = Propagate(err', IF rIdx = Len(routeFiles) THEN AfterRoutes(entry)
                                                     ELSE "ws_route_loop")
  /\ result' = IF pc' = "done" THEN "returned" ELSE result
  /\ rIdx' = rIdx + 1
  /\ UNCHANGED <<inputVars, tables, fleetTables, fleetLocals, fnBuilt, policies,
                 grants, functions, wsLambdas, cmVars, apiDirs, wIdx, apiConf, routeFiles,
                 apis, stages, endpoints, outputs, chatEnv>>

\* stage = build_websocket_stage(self, api, api_conf); self.stages[name] = stage
WsStage ==
  /\ pc = "ws_stage"
  /\ LET b == build_websocket_stage(ApiName, apiConf)
     IN /\ err' = b.err
        /\ stages' = IF err' = NoErr THEN VarsUpdate(stages, ApiName :> b.stage) ELSE stages
  /\ pc' = Propagate(err', WsNext("ws_stage"))
  /\ UNCHANGED <<inputVars, result, tables, fleetTables, fleetLocals, fnBuilt, policies,
                 grants, functions, wsLambdas, wsLocals, apis, routes, endpoints, outputs,
                 chatEnv>>

\* mc = api_conf.get("manage_connections_for", []); if mc:
\* grant_manage_connections(api, lambdas, mc, self.config_mgr)
WsGrant ==
  /\ pc = "ws_grant"
  /\ LET mc == GetOr(apiConf, "manage_connections_for", List(<<>>))
         g == IF Truthy(mc)
                THEN grant_manage_connections(fs, cmVars, policies, wsLambdas, mc.v)
                ELSE [err |-> NoErr, attached |-> policies]
     IN /\ policies' = g.attached
        /\ err' = g.err
  /\ pc' = Propagate(err', WsNext("ws_grant"))
  /\ UNCHANGED <<inputVars, result, tables, fleetTables, fleetLocals, fnBuilt, grants,
                 functions, wsLambdas, wsLocals, wsBuilt, chatEnv>>

\* endpoint = f"wss://..."; self.endpoints[name] = endpoint; CfnOutput(self,
\* f"WsEndpoint-{name}", value=endpoint); and on to the next API folder
WsEndpoint ==
  /\ pc = "ws_endpoint"
  /\ endpoints' = VarsUpdate(endpoints,
                     ApiName :> [api |-> ApiName, region |-> AsmStack.region,
                                 stage_name |-> IF ApiName \in DOMAIN stages
                                                  THEN stages[ApiName].stage_name ELSE Null])
  /\ outputs' = outputs \cup {[id |-> "WsEndpoint", name |-> ApiName]}
  /\ wIdx' = wIdx + 1
  /\ pc' = WsNext("ws_endpoint")
  /\ UNCHANGED <<inputVars, err, result, tables, fleetTables, fleetLocals, fnBuilt, policies,
                 grants, functions, wsLambdas, cmVars, apiDirs, apiConf, routeFiles, rIdx,
                 apis, routes, stages, chatEnv>>

\* The loop is over: the constructor returns.  In the stack the two outputs
\* follow, and the stack's constructor returns.
WsReturn ==
  /\ pc = "ws_loop"
  /\ wIdx > Len(apiDirs)
  /\ pc' = AfterConstruct(entry, "ws")
  /\ result' = IF pc' = "done" THEN "returned" ELSE result
  /\ outputs' = IF entry = "ChatBackendStack"
                  THEN outputs
                         \cup (IF s_chat \in DOMAIN endpoints
                                 THEN {[id |-> "WsChatEndpoint", name |-> s_chat]} ELSE {})
                         \cup (IF s_messages \in DOMAIN tables
                                 THEN {[id |-> "MessagesTableName", name |-> s_messages]}
                                 ELSE {})
                  ELSE outputs
  /\ UNCHANGED <<inputVars, err, tables, fleetTables, fleetLocals, fnBuilt, policies, grants,
                 functions, wsLambdas, wsLocals, apis, routes, stages, endpoints, chatEnv>>

----------------------------------------------------------------------------
(* Direct calls of the config store, of placeholder expansion and of the
   validators: one call per run, its arguments drawn from the pools below. *)

VARIABLES
  stOp,     \* the function called
  stFs,     \* the file tree it reads
  stScan,   \* the order the file system yields the entries of the tables directory
  stVars,   \* self.vars of the ConfigManager (NoVars for a module-level function)
  stArg,    \* the arguments of the call
  stPc,     \* "call" before the call, "returned" or "raised" after it
  stOut     \* the outcome: [err, ...] with the returned value

storeVars == <<stOp, stFs, stScan, stVars, stArg, stPc, stOut>>

s_table_dash == <<"t", "a", "b", "l", "e", "-">>   \* table-
s_dollar == <<"$">>   \* $
s_dollar_brace == <<"$", "{">>   \* ${
s_brace_x == <<"}", "x">>   \* }x
s_tok_a_b == <<"$", "{", "a", "-", "b", "}">>   \* ${a-b}
k_v_1 == <<"v", "_", "1">>   \* v_1
k_Unknown == <<"U", "n", "k", "n", "o", "w", "n">>   \* Unknown
k_Sfx == <<"S", "f", "x">>   \* Sfx
s_x1 == <<"x", "1">>   \* x1
s_Name == <<"N", "a", "m", "e">>   \* Name
s_tok_branch == <<"$", "{", "B", "r", "a", "n", "c", "h", "}">>   \* ${Branch}
s_open_env == <<"$", "{", "E", "n", "v", "$", "{", "S", "f", "x", "}", "}">>   \* ${Env${Sfx}}

\* Variable sets: plain values; a value that is itself a token of a known
\* name; a value that completes a token the surrounding text opens; none.
VarsPlain == (k_EnvName :> s_dev) @@ (k_Region :> s_eu_west_1) @@ (k_v_1 :> s_x1)
VarsToken == (k_EnvName :> s_main) @@ (k_Branch :> s_tok_env)
VarsSuffix == (k_EnvName :> s_dev) @@ (k_Sfx :> s_Name)
StoreVarSets == {VarsPlain, VarsToken, VarsSuffix}

\* Text written as segments: literal text, or a token ${name}.  No two
\* literals of the pool join to a token, so the tokens of a text are exactly
\* its token segments.
Lit(txt) == [k |-> "lit", s |-> txt]
Tok(name) == [k |-> "tok", s |-> name]
SegText(g) == IF g.k = "tok" THEN s_dollar_brace \o g.s \o <<"}">> ELSE g.s

RECURSIVE SegsText(_)
SegsText(segs) == IF segs = <<>> THEN <<>> ELSE SegText(Head(segs)) \o SegsText(Tail(segs))

Segs(segs) == [t |-> "segs", v |-> segs]

\* The JSON value a segmented value stands for.
RECURSIVE Render(_)
Render(x) ==
  CASE x.t = "segs" -> Str(SegsText(x.v))
    [] x.t = "list" -> List([i \in DOMAIN x.v |-> Render(x.v[i])])
    [] x.t = "dict" -> Dict([k \in DOMAIN x.v |-> Render(x.v[k])])
    [] OTHER -> x

Literals == {Lit(s_table_dash), Lit(s_dollar), Lit(s_dollar_brace), Lit(s_brace_x),
             Lit(s_tok_a_b)}
Tokens == {Tok(k_EnvName), Tok(k_v_1), Tok(k_Unknown), Tok(k_Branch)}
Segments == Literals \cup Tokens

\* The values expand_placeholders is called on: strings of up to three
\* segments, and strings inside lists and mappings next to other scalars.
SegmentedValues ==
  {Segs(<<a>>) : a \in Segments}
    \cup {Segs(<<a, b>>) : a \in Segments, b \in Segments}
    \cup {Segs(<<a, b, c>>) : a \in Literals, b \in Tokens, c \in Segments}
    \cup {Dict([name |-> List(<<Segs(<<a>>), Num(1)>>),
                tags |-> Dict([env |-> Segs(<<Lit(s_table_dash), b>>), on |-> Bool(TRUE)]),
                none |-> Null]) : a \in Segments, b \in Tokens}

\* File contents of the store's directories.
FragE == Dict([name |-> Str(s_tok_branch), env |-> List(<<Str(s_open_env)>>)])
NonDict == List(<<Str(s_tok_env)>>)
EmptyList == List(<<>>)

\* The tables directory: notes.txt and any of defaults.json, a.json, b.json.
StoreFs(defaults, a, b) ==
  (CONFIG_ROOT :> DirNode)
    @@ (TablesDir :> DirNode)
    @@ (TablesDir \o <<s_notes_txt>> :> FileNode(Text))
    @@ OptionalFile(TablesDir \o <<s_defaults_json>>, defaults)
    @@ OptionalFile(TablesDir \o <<s_a_json>>, a)
    @@ OptionalFile(TablesDir \o <<s_b_json>>, b)

StoreTrees ==
  {StoreFs(d, a, b) : d \in {Absent, FragB, FragE, EmptyList},
                      a \in {Absent, FragA, FragE, Malformed},
                      b \in {Absent, FragC, NonDict}}

\* A directory of empty JSON documents.
ListedFs(names) ==
  (CONFIG_ROOT :> DirNode)
    @@ (TablesDir :> DirNode)
    @@ [p \in {TablesDir \o <<n>> : n \in names} |-> FileNode(Dict(EmptyDict))]

ListedNames == {s_a_json, s_b_json, s_c_json, s_B_json, s_defaults_json, s_notes_txt}
MaxListed == 3

\* The orders in which a directory with entries S can be read.
ScanOrders(S) ==
  {q \in [1..Cardinality(S) -> S] : \A i, j \in 1..Cardinality(S) : q[i] = q[j] => i = j}

EntryNames(tree, dir) == {Basename(p) : p \in Children(tree, dir)}

\* Policy documents for the policy loader and for _validate_config.
StatementBranch ==
  Dict([Effect |-> Str(s_Allow), Action |-> Str(s_action_mc), Resource |-> Str(s_tok_branch)])
StatementNoResource == Dict([Effect |-> Str(s_Allow), Action |-> Str(s_action_mc)])
PolBranch == Dict([inline |-> Dict([Logs |-> List(<<StatementOk, StatementBranch>>)])])
PolicyValues ==
  [managed |-> List(<<Str(s_read)>>),
   inline |-> Dict([Logs |-> List(<<StatementOk>>)]),
   version |-> Num(1),
   statements |-> List(<<>>)]
PolicyDocs ==
  {Dict([k \in K |-> PolicyValues[k]]) : K \in SUBSET DOMAIN PolicyValues}
    \cup {Dict([k \in K |-> IF k = "inline"
                              THEN Dict([Logs |-> List(<<StatementNoResource>>)])
                              ELSE PolicyValues[k]]) :
            K \in {L \in SUBSET DOMAIN PolicyValues : "inline" \in L}}
    \cup {NonDict}

RequiredOfTable == <<"table_name", "partition_key", "billing_mode", "pitr", "kms_alias">>
Restrict(d, K) == [k \in K |-> d[k]]

StoreIdle ==
  /\ stOp = "none"
  /\ stFs = NoFiles
  /\ stScan = <<>>
  /\ stVars = NoVars
  /\ stArg = <<>>
  /\ stPc = "idle"
  /\ stOut = [err |-> NoErr]

\* The calls, by function.
ListCalls ==
  /\ stOp = "list_config_files"
  /\ stVars = VarsPlain
  /\ \/ /\ \E S \in SUBSET ListedNames :
             /\ Cardinality(S) <= MaxListed
             /\ stFs = ListedFs(S)
             /\ stScan \in ScanOrders(S)
        /\ stArg \in [config_type : {"tables"},
                      exclude : {{}, {s_defaults_json}, {s_b_json, s_notes_txt}}]
     \/ /\ stFs = (CONFIG_ROOT :> DirNode)
        /\ stScan = <<>>
        /\ stArg \in [config_type : {"tables", "dynamodb"}, exclude : {{}}]

TableCalls ==
  /\ stOp = "load_table_configs"
  /\ stVars \in StoreVarSets
  /\ stFs \in StoreTrees
  /\ stScan \in ScanOrders(EntryNames(stFs, TablesDir))
  /\ stArg \in [config_files : {<<>>}, defaults_file : {<<>>, s_defaults_json}]

WithDefaultsCalls ==
  /\ stOp = "load_config_with_defaults"
  /\ stVars \in StoreVarSets
  /\ stFs \in StoreTrees
  /\ stScan = SortedStrs(EntryNames(stFs, TablesDir))
  /\ stArg \in [config_type : {"tables"}, filename : {s_a_json},
                defaults_file : {<<>>, s_defaults_json}]

LoadCalls ==
  /\ stOp = "load_config"
  /\ stVars \in StoreVarSets
  /\ stFs \in StoreTrees
  /\ stScan = SortedStrs(EntryNames(stFs, TablesDir))
  /\ stArg \in [config_type : {"tables", "dynamodb"}, filename : {s_a_json}]

FolderCalls ==
  /\ stOp = "load_lambda_config_from_folder"
  /\ stScan = <<>>
  /\ \E folder \in {<<s_lambda_src, s_chat>>, <<s_lambda_src, s_fn_env>>},
        c1 \in {Absent, FragA, FragE}, c2 \in {Absent, FragC}, c3 \in {Absent, FragD, FragE} :
        /\ stFs = FolderFs(folder, c1, c2, c3)
        /\ \/ /\ stVars = NoVars
              /\ stArg \in [impl : {"lambda_builder"}, folder : {folder}, vars : StoreVarSets]
           \/ /\ stVars \in StoreVarSets
              /\ stArg \in [impl : {"ConfigManager"}, folder : {folder},
                            vars : {NoVars, k_EnvName :> s_main}]

\* Policy documents with a managed list that is in order, whose fault, if
\* any, comes after it: an unknown key, an inline policy with no statement, a
\* second inline policy whose statement lacks Effect, Action, or both Resource
\* and NotResource; and one whose managed entry is not a list.
ManagedOk == List(<<Str(s_read)>>)
LogsOk == List(<<StatementOk>>)
StatementNoEffect == Dict([Action |-> Str(s_action_mc), Resource |-> Str(s_res_env)])
StatementNoAction == Dict([Effect |-> Str(s_Allow), Resource |-> Str(s_res_env)])
PolManaged == Dict([managed |-> ManagedOk, inline |-> Dict([Logs |-> LogsOk])])
PolFaults ==
  {Dict([managed |-> ManagedOk, inline |-> Dict([Logs |-> LogsOk]), version |-> Num(1)]),
   Dict([managed |-> Str(s_read), inline |-> Dict([Logs |-> LogsOk])]),
   Dict([managed |-> ManagedOk, inline |-> Dict([Logs |-> List(<<>>)])])}
    \cup {Dict([managed |-> ManagedOk,
                inline |-> Dict([Logs |-> LogsOk, Zed |-> List(<<StatementOk, st>>)])]) :
            st \in {StatementNoEffect, StatementNoAction, StatementNoResource}}

PolicyCalls ==
  /\ stOp = "apply_policies_to_role"
  /\ stScan = <<>>
  /\ stVars \in StoreVarSets
  /\ \E pol \in {Absent, Malformed, PolOk, PolExtra, PolBranch, PolManaged} \cup PolFaults :
        stFs = ConfigsFs(Absent, pol) @@ LambdaFs(Absent, FnPlain, pol)
  /\ stArg \in {[role |-> s_chat, filename |-> s_manage_connections_json,
                 base_dir |-> NoBaseDir],
                [role |-> s_chat, filename |-> s_policy_json,
                 base_dir |-> BaseDir(<<s_lambda_src, s_chat>>)]}

ExpandCalls ==
  /\ stOp = "expand_placeholders"
  /\ stFs = NoFiles
  /\ stScan = <<>>
  /\ \E x \in SegmentedValues :
        \/ /\ stVars = NoVars
           /\ stArg \in [impl : {"lambda_builder"}, segs : {x}, obj : {Render(x)},
                         vars : StoreVarSets \cup {NoVars}]
        \/ /\ stVars \in StoreVarSets
           /\ stArg = [impl |-> "ConfigManager", segs |-> x, obj |-> Render(x),
                       vars |-> NoneVars]
        \/ /\ stVars = VarsPlain
           /\ stArg \in [impl : {"ConfigManager"}, segs : {x}, obj : {Render(x)},
                         vars : {NoVars, VarsToken}]

RequiredCalls ==
  /\ stOp = "validate_required_fields"
  /\ stFs = NoFiles
  /\ stScan = <<>>
  /\ stVars = NoVars
  /\ \E K \in SUBSET {"table_name", "partition_key", "billing_mode", "sort_key"} :
        stArg \in [data : {Restrict(TableOk.v @@ [sort_key |-> Null], K)},
                   required_fields : {<<"table_name", "partition_key", "billing_mode">>,
                                      <<"billing_mode", "table_name">>, <<>>},
                   context : {"Table"}]

BuildTableCalls ==
  /\ stOp = "build_table"
  /\ stFs = NoFiles
  /\ stScan = <<>>
  /\ stVars = NoVars
  /\ \E K \in SUBSET Range(RequiredOfTable) :
        stArg \in [name : {s_messages}, conf : {Restrict(TableOk.v, K)},
                   env_name : {s_dev, s_main}]

ValidateConfigCalls ==
  /\ stOp = "_validate_config"
  /\ stFs = NoFiles
  /\ stScan = <<>>
  /\ stVars = NoVars
  /\ stArg \in [raw : PolicyDocs]

\* Trees for the directory listings: the function root, the API root, the
\* folder of the API chat and its routes directory are each missing, a plain
\* file, or a directory.
NodeKinds == {"none", "file", "dir"}
NodeOf(path, kind) ==
  CASE kind = "none" -> NoFiles
    [] kind = "file" -> path :> FileNode(Text)
    [] kind = "dir" -> path :> DirNode
Under(kind, tree) == IF kind = "dir" THEN tree ELSE NoFiles
CodeRoot == <<s_lambda_src>>
FindFs(kRoot, kWs, kApi, kRoutes) ==
  (CONFIG_ROOT :> DirNode)
    @@ (CONFIG_ROOT \o <<s_apis>> :> DirNode)
    @@ NodeOf(CodeRoot, kRoot)
    @@ Under(kRoot, (CodeRoot \o <<s_chat>> :> DirNode)
                      @@ (CodeRoot \o <<s_chat, s_app_py>> :> FileNode(Text)))
    @@ NodeOf(WsDir, kWs)
    @@ Under(kWs, NodeOf(WsDir \o <<s_chat>>, kApi)
                    @@ Under(kApi, (WsDir \o <<s_chat, s_api_json>> :> FileNode(ApiOk))
                                     @@ NodeOf(WsDir \o <<s_chat, s_routes>>, kRoutes)
                                     @@ Under(kRoutes,
                                              WsDir \o <<s_chat, s_routes, s_connect_json>>
                                                :> FileNode(RouteChat))))
FindTrees ==
  {FindFs(a, b, c, d) : a \in NodeKinds, b \in NodeKinds, c \in NodeKinds, d \in NodeKinds}

FindLambdaCalls ==
  /\ stOp = "find_lambda_dirs"
  /\ stFs \in FindTrees
  /\ stScan = <<>>
  /\ stVars = NoVars
  /\ stArg = [code_root |-> CodeRoot]

FindRouteCalls ==
  /\ stOp = "find_route_files"
  /\ stFs \in FindTrees
  /\ stScan = <<>>
  /\ stVars = NoVars
  /\ stArg \in [api_name : {s_chat, s_admin}]

FindApiCalls ==
  /\ stOp = "find_api_directories"
  /\ stFs \in FindTrees
  /\ stScan = <<>>
  /\ stVars = NoVars
  /\ stArg = <<>>

s_python39 == <<"p", "y", "t", "h", "o", "n", "3", ".", "9">>   \* python3.9
s_python == <<"p", "y", "t", "h", "o", "n">>   \* python
s_python312_sp == <<"p", "y", "t", "h", "o", "n", "3", ".", "1", "2", " ">>   \* python3.12 
s_python3120 == <<"p", "y", "t", "h", "o", "n", "3", ".", "1", "2", "0">>   \* python3.120
s_STR == <<"S", "T", "R">>   \* STR
s_BOOLEAN == <<"B", "O", "O", "L", "E", "A", "N">>   \* BOOLEAN
s_string_sp == <<"s", "t", "r", "i", "n", "g", " ">>   \* string 

\* Every letter-casing of a text.
RECURSIVE Casings(_)
Casings(txt) ==
  IF txt = <<>> THEN {<<>>}
  ELSE {<<c>> \o r : c \in {LowerChar(Head(txt)), UpperChar(Head(txt))},
                     r \in Casings(Tail(txt))}

\* Identifiers outside the closed sets, none of them empty.
NoIdentifier == <<>>
OtherRuntimes == {s_python39, s_python, s_python312_sp, s_python3120, s_ruby, s_STRING}
OtherAttrTypes == {s_STR, s_BOOLEAN, s_string_sp, s_python312}

\* A call of runtime_from or to_attr_type: s is the argument, canon the
\* identifier of the closed set it is a casing of (NoIdentifier when it is of
\* none).
RuntimeCalls ==
  /\ stOp = "runtime_from"
  /\ stFs = NoFiles
  /\ stScan = <<>>
  /\ stVars = NoVars
  /\ \/ \E id \in SupportedRuntimes : \E c \in Casings(id) : stArg = [s |-> Str(c), canon |-> id]
     \/ \E o \in OtherRuntimes : stArg = [s |-> Str(o), canon |-> NoIdentifier]
     \/ stArg \in [s : {Null, Str(<<>>)}, canon : {NoIdentifier}]

AttrTypeCalls ==
  /\ stOp = "to_attr_type"
  /\ stFs = NoFiles
  /\ stScan = <<>>
  /\ stVars = NoVars
  /\ \/ \E id \in AttrTypes : \E c \in Casings(id) : stArg = [s |-> Str(c), canon |-> id]
     \/ \E o \in OtherAttrTypes : stArg = [s |-> Str(o), canon |-> NoIdentifier]
     \/ stArg \in [s : {Null, Str(<<>>)}, canon : {NoIdentifier}]

\* Route fragments for the route rules: route_key present or not; integration
\* absent, not an object, or an object with any of type and lambda_name.
s_Lambda == <<"L", "a", "m", "b", "d", "a">>   \* Lambda
RouteIntegrations ==
  {Absent, Str(s_http)}
    \cup {Dict(OptionalKey(ht, "type", Str(t)) @@ OptionalKey(hn, "lambda_name", Str(n))) :
            ht \in BOOLEAN, hn \in BOOLEAN, t \in {s_lambda, s_http, s_Lambda},
            n \in {s_chat, s_ghost}}
RouteFragments ==
  {OptionalKey(hk, "route_key", Str(s_dollar_connect))
     @@ OptionalKey(i # Absent, "integration", i) :
        hk \in BOOLEAN, i \in RouteIntegrations}
RouteFilePath == WsDir \o <<s_chat, s_routes, s_connect_json>>

RouteCalls ==
  /\ stOp \in {"add_routes_from_dir", "validate_route_config"}
  /\ stFs = NoFiles
  /\ stScan = <<>>
  /\ stVars = NoVars
  /\ stArg \in [rc : RouteFragments,
                lambdas : {Registry({}, MkFn), Registry({s_chat}, MkFn)}]

s_READ == <<"R", "E", "A", "D">>   \* READ
s_Write == <<"W", "r", "i", "t", "e">>   \* Write
s_READWRITE == <<"R", "E", "A", "D", "W", "R", "I", "T", "E">>   \* READWRITE

\* Grant lists for grant_table_access: one entry on messages, or one on
\* messages and one on sessions; access is absent, null, a casing of read,
\* write or readWrite, or the value admin.
AccessValues == {Absent, Null, Str(s_read), Str(s_READ), Str(s_Write), Str(s_readWrite),
                 Str(s_READWRITE), Str(s_admin)}
GrantEntry(t, a) == Dict(("table" :> Str(t)) @@ OptionalKey(a # Absent, "access", a))
GrantLists ==
  {<<GrantEntry(s_messages, a)>> : a \in AccessValues}
    \cup {<<GrantEntry(s_messages, a), GrantEntry(s_sessions, b)>> :
            a \in AccessValues, b \in AccessValues}

\* Service names: the keys of CONFIG_PATHS, the names valid_services lists,
\* a key in another casing and a name neither knows.
ServiceNames == DOMAIN CONFIG_PATHS \cup valid_services \cup {"Policies", "queues"}

ServiceNameCalls ==
  /\ stOp = "validate_service_name"
  /\ stFs = NoFiles
  /\ stScan = <<>>
  /\ stVars = NoVars
  /\ stArg \in ServiceNames

s_Main == <<"M", "a", "i", "n">>   \* Main
s_acct_main == <<"2", "2", "2">>   \* 222
s_develop == <<"d", "e", "v", "e", "l", "o", "p">>   \* develop
s_staging == <<"s", "t", "a", "g", "i", "n", "g">>   \* staging

\* Contexts for the environment selection: the declared default is absent,
\* null, empty, dev or Main; the override is absent, empty, MAIN, dev or
\* staging; the dev and main entries hold different account ids, the dev
\* entry may hold a branch and a connection id, the main entry may hold a
\* branch; there is no staging entry.
EnvEntryOf(acct, hasBranch, hasConn) ==
  Dict(("account_id" :> Str(acct))
         @@ OptionalKey(hasBranch, "branch", Str(s_develop))
         @@ OptionalKey(hasConn, "connection_id", Str(s_conn)))
EnvContexts ==
  {[odyssey |-> Dict(OptionalKey(e # Absent, "env", e)
                       @@ ("dev" :> EnvEntryOf(s_acct, b, c))
                       @@ ("main" :> EnvEntryOf(s_acct_main, m, FALSE))
                       @@ ("github" :> Dict(("owner" :> Str(s_owner)) @@ ("repo" :> Str(s_repo))))),
    env_override |-> ov] :
      e \in {Absent, Null, Str(<<>>), Str(s_dev), Str(s_Main)},
      b \in BOOLEAN, c \in BOOLEAN, m \in BOOLEAN,
      ov \in {Null, Str(<<>>), Str(s_MAIN), Str(s_dev), Str(s_staging)}}

GetCfgCalls ==
  /\ stOp = "get_cfg"
  /\ stFs = NoFiles
  /\ stScan = <<>>
  /\ stVars = NoVars
  /\ stArg \in EnvContexts

GrantCalls ==
  /\ stOp = "grant_table_access"
  /\ stFs = NoFiles
  /\ stScan = <<>>
  /\ stVars = NoVars
  /\ stArg \in [fn : {s_chat}, grants : GrantLists,
                tables : {Registry({s_messages, s_sessions}, MkTable)}]

StoreInit ==
  /\ stPc = "call"
  /\ stOut = [err |-> NoErr]
  /\ \/ ListCalls
     \/ TableCalls
     \/ WithDefaultsCalls
     \/ LoadCalls
     \/ FolderCalls
     \/ PolicyCalls
     \/ ExpandCalls
     \/ RequiredCalls
     \/ BuildTableCalls
     \/ ValidateConfigCalls
     \/ FindLambdaCalls
     \/ FindRouteCalls
     \/ FindApiCalls
     \/ RuntimeCalls
     \/ AttrTypeCalls
     \/ RouteCalls
     \/ GrantCalls
     \/ ServiceNameCalls
     \/ GetCfgCalls

\* The call returns or raises with outcome r.
Outcome(r) ==
  /\ stOut' = r
  /\ stPc' = IF r.err # NoErr THEN "raised" ELSE "returned"
  /\ UNCHANGED <<stOp, stFs, stScan, stVars, stArg>>

CallListConfigFiles ==
  /\ stPc = "call"
  /\ stOp = "list_config_files"
  /\ Outcome(list_config_files(stFs, stScan, stArg.config_type, stArg.exclude))

CallLoadTableConfigs ==
  /\ stPc = "call"
  /\ stOp = "load_table_configs"
  /\ Outcome(load_table_configs(stFs, stScan, stVars, stArg.config_files,
                                stArg.defaults_file))

CallLoadConfigWithDefaults ==
  /\ stPc = "call"
  /\ stOp = "load_config_with_defaults"
  /\ Outcome(load_config_with_defaults(stFs, stVars, stArg.config_type, stArg.filename,
                                       stArg.defaults_file))

CallLoadConfig ==
  /\ stPc = "call"
  /\ stOp = "load_config"
  /\ Outcome(load_config(stFs, stVars, stArg.config_type, stArg.filename))

CallLoadLambdaConfig ==
  /\ stPc = "call"
  /\ stOp = "load_lambda_config_from_folder"
  /\ Outcome(IF stArg.impl = "lambda_builder"
               THEN load_lambda_config_from_folder(stFs, stArg.folder, stArg.vars)
               ELSE ConfigManager_load_lambda_config_from_folder(
                      stFs, stVars, stArg.folder, stArg.vars))

CallApplyPolicies ==
  /\ stPc = "call"
  /\ stOp = "apply_policies_to_role"
  /\ Outcome(apply_policies_to_role(stFs, stVars, {}, stArg.role, stArg.filename,
                                    stArg.base_dir))

CallExpandPlaceholders ==
  /\ stPc = "call"
  /\ stOp = "expand_placeholders"
  /\ Outcome([err |-> NoErr,
              data |-> IF stArg.impl = "lambda_builder"
                         THEN expand_placeholders(stArg.obj, stArg.vars)
                         ELSE ConfigManager_expand_placeholders(stVars, stArg.obj,
                                                                stArg.vars)])

CallValidateRequiredFields ==
  /\ stPc = "call"
  /\ stOp = "validate_required_fields"
  /\ Outcome([err |-> validate_required_fields(stArg.data, stArg.required_fields,
                                               stArg.context)])

CallBuildTable ==
  /\ stPc = "call"
  /\ stOp = "build_table"
  /\ Outcome(build_table({}, stArg.name, stArg.conf, stArg.env_name))

CallValidateConfig ==
  /\ stPc = "call"
  /\ stOp = "_validate_config"
  /\ Outcome([err |-> _validate_config(stArg.raw)])

CallFindLambdaDirs ==
  /\ stPc = "call"
  /\ stOp = "find_lambda_dirs"
  /\ Outcome(find_lambda_dirs(stFs, stArg.code_root))

CallFindRouteFiles ==
  /\ stPc = "call"
  /\ stOp = "find_route_files"
  /\ Outcome(find_route_files(stFs, stArg.api_name))

CallFindApiDirectories ==
  /\ stPc = "call"
  /\ stOp = "find_api_directories"
  /\ Outcome(find_api_directories(stFs))

CallRuntimeFrom ==
  /\ stPc = "call"
  /\ stOp = "runtime_from"
  /\ Outcome(runtime_from(stArg.s))

CallToAttrType ==
  /\ stPc = "call"
  /\ stOp = "to_attr_type"
  /\ Outcome(to_attr_type(stArg.s))

\* One turn of the loop of add_routes_from_dir on a loaded route fragment.
CallRouteTurn ==
  /\ stPc = "call"
  /\ stOp = "add_routes_from_dir"
  /\ Outcome(RouteFrom(stArg.lambdas, {}, s_chat, RouteFilePath,
                       [err |-> NoErr, data |-> Dict(stArg.rc)]))

CallValidateRouteConfig ==
  /\ stPc = "call"
  /\ stOp = "validate_route_config"
  /\ Outcome([err |-> validate_route_config(stArg.rc, RouteFilePath)])

CallValidateServiceName ==
  /\ stPc = "call"
  /\ stOp = "validate_service_name"
  /\ Outcome([err |-> validate_service_name(stArg)])

\* get_cfg on an empty cache: its body runs.
CallGetCfg ==
  /\ stPc = "call"
  /\ stOp = "get_cfg"
  /\ Outcome(get_cfg_body(stArg))

CallGrantTableAccess ==
  /\ stPc = "call"
  /\ stOp = "grant_table_access"
  /\ Outcome(grant_table_access(stArg.fn, stArg.grants, stArg.tables))

----------------------------------------------------------------------------
(* Specifications *)

vars == <<cfgVars, mergeVars, asmVars, storeVars>>

NextCfg ==
  \/ \E s \in Scopes : GetCfgCall(s) /\ UNCHANGED <<mergeVars, asmVars, storeVars>>
  \/ \E s \in Scopes : ConfigManagerInit(s) /\ UNCHANGED <<mergeVars, asmVars, storeVars>>

InitCfg == CfgInit /\ MergeIdle /\ AsmIdle /\ StoreIdle

SpecCfg == InitCfg /\ [][NextCfg]_vars

NextMerge ==
  \/ MergeGlob /\ UNCHANGED <<cfgVars, asmVars, storeVars>>
  \/ MergeFile /\ UNCHANGED <<cfgVars, asmVars, storeVars>>
  \/ MergeDefaults /\ UNCHANGED <<cfgVars, asmVars, storeVars>>
  \/ MergeExpand /\ UNCHANGED <<cfgVars, asmVars, storeVars>>
  \/ TableDefaults /\ UNCHANGED <<cfgVars, asmVars, storeVars>>
  \/ TableFile /\ UNCHANGED <<cfgVars, asmVars, storeVars>>

InitMerge == MergeInit /\ CfgIdle /\ AsmIdle /\ StoreIdle

SpecMerge == InitMerge /\ [][NextMerge]_vars

NextStore ==
  \/ CallListConfigFiles /\ UNCHANGED <<cfgVars, mergeVars, asmVars>>
  \/ CallLoadTableConfigs /\ UNCHANGED <<cfgVars, mergeVars, asmVars>>
  \/ CallLoadConfigWithDefaults /\ UNCHANGED <<cfgVars, mergeVars, asmVars>>
  \/ CallLoadConfig /\ UNCHANGED <<cfgVars, mergeVars, asmVars>>
  \/ CallLoadLambdaConfig /\ UNCHANGED <<cfgVars, mergeVars, asmVars>>
  \/ CallApplyPolicies /\ UNCHANGED <<cfgVars, mergeVars, asmVars>>
  \/ CallExpandPlaceholders /\ UNCHANGED <<cfgVars, mergeVars, asmVars>>
  \/ CallValidateRequiredFields /\ UNCHANGED <<cfgVars, mergeVars, asmVars>>
  \/ CallBuildTable /\ UNCHANGED <<cfgVars, mergeVars, asmVars>>
  \/ CallValidateConfig /\ UNCHANGED <<cfgVars, mergeVars, asmVars>>
  \/ CallFindLambdaDirs /\ UNCHANGED <<cfgVars, mergeVars, asmVars>>
  \/ CallFindRouteFiles /\ UNCHANGED <<cfgVars, mergeVars, asmVars>>
  \/ CallFindApiDirectories /\ UNCHANGED <<cfgVars, mergeVars, asmVars>>
  \/ CallRuntimeFrom /\ UNCHANGED <<cfgVars, mergeVars, asmVars>>
  \/ CallToAttrType /\ UNCHANGED <<cfgVars, mergeVars, asmVars>>
  \/ CallRouteTurn /\ UNCHANGED <<cfgVars, mergeVars, asmVars>>
  \/ CallValidateRouteConfig /\ UNCHANGED <<cfgVars, mergeVars, asmVars>>
  \/ CallGrantTableAccess /\ UNCHANGED <<cfgVars, mergeVars, asmVars>>
  \/ CallValidateServiceName /\ UNCHANGED <<cfgVars, mergeVars, asmVars>>
  \/ CallGetCfg /\ UNCHANGED <<cfgVars, mergeVars, asmVars>>

InitStore == StoreInit /\ CfgIdle /\ MergeIdle /\ AsmIdle

SpecStore == InitStore /\ [][NextStore]_vars

Next ==
  \/ DynamoTablesNew /\ UNCHANGED <<cfgVars, mergeVars, storeVars>>
  \/ FleetStart /\ UNCHANGED <<cfgVars, mergeVars, storeVars>>
  \/ FleetLoad /\ UNCHANGED <<cfgVars, mergeVars, storeVars>>
  \/ FleetBuild /\ UNCHANGED <<cfgVars, mergeVars, storeVars>>
  \/ FleetPolicy /\ UNCHANGED <<cfgVars, mergeVars, storeVars>>
  \/ FleetGrant /\ UNCHANGED <<cfgVars, mergeVars, storeVars>>
  \/ FleetRegister /\ UNCHANGED <<cfgVars, mergeVars, storeVars>>
  \/ FleetReturn /\ UNCHANGED <<cfgVars, mergeVars, storeVars>>
  \/ WsStart /\ UNCHANGED <<cfgVars, mergeVars, storeVars>>
  \/ WsLoad /\ UNCHANGED <<cfgVars, mergeVars, storeVars>>
  \/ WsApi /\ UNCHANGED <<cfgVars, mergeVars, storeVars>>
  \/ WsRoutesList /\ UNCHANGED <<cfgVars, mergeVars, storeVars>>
  \/ WsRoute /\ UNCHANGED <<cfgVars, mergeVars, storeVars>>
  \/ WsStage /\ UNCHANGED <<cfgVars, mergeVars, storeVars>>
  \/ WsGrant /\ UNCHANGED <<cfgVars, mergeVars, storeVars>>
  \/ WsEndpoint /\ UNCHANGED <<cfgVars, mergeVars, storeVars>>
  \/ WsReturn /\ UNCHANGED <<cfgVars, mergeVars, storeVars>>

Init == AsmInit /\ CfgIdle /\ MergeIdle /\ StoreIdle

Spec == Init /\ [][Next]_vars

----------------------------------------------------------------------------
(* Claims *)

\* C7: for any sequence of get_cfg calls, two calls with the same scope return
\* the identical configuration object, also when calls with other scopes occur
\* in between: no scope is ever handed two different objects.
C7_SameScopeSameObject ==
  \A s \in Scopes : Cardinality(cfgReturned[s]) <= 1

\* C9: merge override law.  While fragments are merged in order, the merged
\* value at every key K is exactly the value of the last loaded fragment that
\* holds K (nothing of an earlier fragment's value at K survives), and every
\* key of every loaded fragment is present.
C9_MergeOverride ==
  (mPc = "merging" \/ (mImpl = "load_table_configs" /\ mPc = "done")) =>
     /\ \A i \in DOMAIN mLoaded : DOMAIN mLoaded[i].v \subseteq DOMAIN mConf
     /\ \A K \in DOMAIN mConf :
           \E i \in DOMAIN mLoaded :
              /\ K \in DOMAIN mLoaded[i].v
              /\ \A j \in DOMAIN mLoaded : j > i => K \notin DOMAIN mLoaded[j].v
              /\ mConf[K] = mLoaded[i].v[K]

\* C9 witness: an earlier fragment held a non-empty nested object at "env", a
\* later one holds another object there, and the merged value is the later one.
C9_Witness ==
  /\ mPc = "merging"
  /\ Len(mLoaded) = 2
  /\ mLoaded[1] = FragA
  /\ mLoaded[2] = FragB
  /\ mConf["env"] = Dict([C |-> Str(s_three)])
  /\ mConf["name"] = Str(s_api_env)
  /\ mConf["memory"] = Num(512)

\* C10: load_lambda_config_from_folder merges the folder's config*.json files
\* in lexicographic file-name order, fills name, runtime, memory, timeout and
\* handler only where no fragment supplied the key, and expands placeholders
\* last: a supplied key carries the expansion of the last supplied value, an
\* absent key the expansion of its default.
C10_MergeDefaultsExpand ==
  (mPc = "done" /\ mImpl \in {"lambda_builder", "ConfigManager"}) =>
     LET used == IF mImpl = "ConfigManager" /\ DOMAIN mExtra # {}
                   THEN VarsUpdate(mSelfVars, mExtra) ELSE mSelfVars
         defaults == [name |-> Str(Basename(mFolder)), runtime |-> Str(s_python312),
                      memory |-> Num(256), timeout |-> Num(10),
                      handler |-> Str(s_app_handler)]
         holders(K) == {i \in DOMAIN mLoaded : K \in DOMAIN mLoaded[i].v}
         last(K) == CHOOSE i \in holders(K) : \A j \in holders(K) : j <= i
     IN /\ {mFrags[i] : i \in DOMAIN mFrags}
             = {q \in DOMAIN mFs : Parent(q) = mFolder /\ GlobConfigJson(Basename(q))}
        /\ \A i, j \in DOMAIN mFrags :
              i < j => StrLess(Basename(mFrags[i]), Basename(mFrags[j]))
        /\ \A i \in DOMAIN mFrags : mLoaded[i] = mFs[mFrags[i]].content
        /\ \A K \in DOMAIN defaults :
              mConf[K] = IF holders(K) # {}
                           THEN expand_placeholders(mLoaded[last(K)].v[K], used)
                           ELSE expand_placeholders(defaults[K], used)
        /\ (Basename(mFolder) = s_fn_env /\ holders("name") = {})
              => mConf["name"] = Str(s_fn_dash \o used[k_EnvName])
        /\ (holders("name") # {} /\ mLoaded[last("name")].v["name"] = Str(s_api_env))
              => mConf["name"] = Str(s_api_dash \o used[k_EnvName])

\* C10 witness: a folder named fn-${EnvName} whose fragments give memory but
\* no name: the folder-derived name appears expanded and memory is kept.
C10_Witness ==
  /\ mPc = "done"
  /\ mImpl = "ConfigManager"
  /\ Basename(mFolder) = s_fn_env
  /\ Len(mLoaded) = 2
  /\ mConf["name"] = Str(s_fn_dash \o s_main)
  /\ mConf["memory"] = Num(512)
  /\ mConf["timeout"] = Num(5)
  /\ mConf["runtime"] = Str(s_python312)

\* The first table name of a grant list that the registry does not hold
\* (<<>>: every name is registered).
RECURSIVE FirstUnregistered(_, _)
FirstUnregistered(grantList, registry) ==
  IF grantList = <<>> THEN <<>>
  ELSE IF Head(grantList).v["table"].v \notin DOMAIN registry
    THEN Head(grantList).v["table"].v
    ELSE FirstUnregistered(Tail(grantList), registry)

\* C1: when LambdaFleet has built a function whose dynamodb_access names a
\* table that is not a key of the table registry, the grant step raises a
\* KeyError that names that table, the function is not added to the function
\* registry, and the constructor returns no registry.
C1_DanglingGrantRaises ==
  [][(pc = "fleet_grant" /\ FirstUnregistered(GrantList(fConf), fleetTables) # <<>>)
       => /\ pc' = "raised"
          /\ err'.type = "KeyError"
          /\ err'.rule = "grant_table_access"
          /\ err'.names = <<FirstUnregistered(GrantList(fConf), fleetTables)>>
          /\ functions' = functions
          /\ fFn.name \notin DOMAIN functions'
          /\ result' = "none"]_vars

\* C1 witness: the chat function was built, its second grant names sessions,
\* the registry holds messages only, and the run ended in that KeyError after
\* the grant on messages was made.
C1_Witness ==
  /\ entry = "LambdaFleet"
  /\ pc = "raised"
  /\ err.rule = "grant_table_access"
  /\ err.names = <<s_sessions>>
  /\ DOMAIN fleetTables = {s_messages}
  /\ fFn.name = s_chat
  /\ s_chat \notin DOMAIN functions
  /\ [fn |-> s_chat, table |-> s_messages, access |-> "write"] \in grants

\* The route file the loop of add_routes_from_dir loads for the file at hand.
RouteFileAtHand == RoutesDir \o <<Basename(routeFiles[rIdx])>>

\* The function name that file integrates, when the file is a well-formed
\* lambda route (<<>> otherwise).
RouteTargetAtHand ==
  IF /\ pc = "ws_route_loop"
     /\ rIdx <= Len(routeFiles)
     /\ IsFile(fs, RouteFileAtHand)
     /\ fs[RouteFileAtHand].content \in {RouteChat, RouteGhost, RouteAuth}
    THEN fs[RouteFileAtHand].content.v["integration"].v["lambda_name"].v
    ELSE <<>>

\* C2: every route added to an API integrates a function that is a key of the
\* function registry; for a route whose integration names a function that is
\* not in the registry, add_routes_from_dir raises the error of
\* validate_lambda_exists naming it and adds no route.
C2_RoutesResolve ==
  /\ [](\A r \in routes : r.lambda.t = "str" /\ r.lambda.v \in DOMAIN wsLambdas)
  /\ [][(RouteTargetAtHand # <<>> /\ RouteTargetAtHand \notin DOMAIN wsLambdas)
          => /\ pc' = "raised"
             /\ err'.rule = "validate_lambda_exists"
             /\ err'.names = <<RouteTargetAtHand>>
             /\ routes' = routes]_vars

\* C2 witness: the first route of an API was added for the registered chat
\* function, the second names auth, which is not registered, and the run
\* ended in the error naming auth.
C2_Witness ==
  /\ entry = "add_routes_from_dir"
  /\ pc = "raised"
  /\ err.rule = "validate_lambda_exists"
  /\ err.names = <<s_auth>>
  /\ DOMAIN wsLambdas = {s_chat}
  /\ Cardinality(routes) = 1
  /\ \A r \in routes : r.lambda = Str(s_chat)

\* A ManageConnections grant has been applied.
McApplied == \E a \in policies : a.kind = "inline" /\ a.name = "ManageConnections"

C5_FailFast ==
  /\ [](err # NoErr => (pc = "raised" /\ result = "none"))
  /\ [][err # NoErr => UNCHANGED <<tables, fnBuilt, functions, policies, grants, apis,
                                   routes, stages, endpoints, outputs, chatEnv>>]_vars

\* C5 witness: a fleet run that raised after a function was built and
\* registered.
C5_Witness ==
  /\ entry = "LambdaFleet"
  /\ pc = "raised"
  /\ err # NoErr
  /\ result = "none"
  /\ DOMAIN functions = {s_auth}
  /\ Cardinality(fnBuilt) = 2

\* The end-to-end case: the stack over a valid messages.json, one function
\* folder (chat) granting read on messages, one API folder (chat) with one
\* route targeting chat, and a complete context.
EndToEndCase ==
  /\ entry = "ChatBackendStack"
  /\ context = CtxDev
  /\ fs = ConfigsFs(TableOk, McOk) @@ LambdaFs(Absent, FnRead, Absent)
            @@ WsFs({s_chat}, {s_connect_json}, ApiOk, RouteChat, Absent)

\* C6: in the end-to-end case the assembly terminates successfully with one
\* table registered, one function registered holding one read grant on that
\* table, and one route integrated with that function.
C6_EndToEnd ==
  (EndToEndCase /\ pc \in {"done", "raised"})
    => /\ result = "returned"
       /\ DOMAIN tables = {s_messages}
       /\ DOMAIN functions = {s_chat}
       /\ grants = {[fn |-> s_chat, table |-> s_messages, access |-> "read"]}
       /\ Cardinality(routes) = 1
       /\ \A r \in routes : r.lambda = Str(s_chat)

\* C8: a placeholder name expands to the same value in every resource
\* category: the variable set function fragments are expanded with agrees
\* with the variable set of the ConfigManager (policies, tables, APIs, routes)
\* on every name both hold.
C8_SameValueEverywhere ==
  \A k \in (DOMAIN fVars) \cap (DOMAIN cmVars) : fVars[k] = cmVars[k]

\* The JSON files of the tables directory whose name is not excluded.
ListedExpected ==
  {p \in Children(stFs, TablesDir) :
      /\ IsFile(stFs, p)
      /\ EndsWith(Basename(p), s_dot_json)
      /\ Basename(p) \notin stArg.exclude}

\* C11: list_config_files returns exactly the *.json files of the category
\* directory whose file name is not excluded, in strictly ascending order of
\* their path text, whatever the order in which the file system yields them.
C11_ListedSorted ==
  (stOp = "list_config_files" /\ stPc # "call" /\ IsDir(stFs, TablesDir)
     /\ stArg.config_type = "tables")
    => /\ stPc = "returned"
       /\ Range(stOut.files) = ListedExpected
       /\ \A i, j \in DOMAIN stOut.files :
             i < j => StrLess(PathStr(stOut.files[i]), PathStr(stOut.files[j]))

\* C11 witness: the directory yields b.json, a.json, c.json and the call
\* returned a.json, b.json, c.json.
C11_Witness ==
  /\ stOp = "list_config_files"
  /\ stPc = "returned"
  /\ stScan = <<s_b_json, s_a_json, s_c_json>>
  /\ stOut.files = <<TablesDir \o <<s_a_json>>, TablesDir \o <<s_b_json>>,
                     TablesDir \o <<s_c_json>>>>

\* The JSON files of the tables directory other than the defaults file.
OtherTableFiles ==
  {p \in Children(stFs, TablesDir) :
      /\ IsFile(stFs, p)
      /\ EndsWith(Basename(p), s_dot_json)
      /\ Basename(p) # stArg.defaults_file}

\* What a file of the tables directory holds once its placeholders are expanded.
ExpandedFile(p) == expand_placeholders(stFs[p].content, stVars)

\* conf holds every key of file with file's value and every key only the
\* defaults hold with the defaults' value.
FileKeysWin(conf, file, defaults) ==
  /\ DOMAIN conf = DOMAIN file \cup DOMAIN defaults
  /\ \A k \in DOMAIN file : conf[k] = file[k]
  /\ \A k \in DOMAIN defaults \ DOMAIN file : conf[k] = defaults[k]

\* C12: load_table_configs with a defaults file returns one (path, config)
\* entry for every other JSON file of the tables directory and none for the
\* defaults file; in each entry every key of the file has the file's value and
\* every key only the defaults hold has the defaults' value, whole.  The merge
\* of load_config_with_defaults is the same.
C12_TableDefaults ==
  /\ (stOp = "load_table_configs" /\ stPc # "call" /\ stArg.defaults_file = s_defaults_json)
       => /\ (/\ IsFile(stFs, TablesDir \o <<s_defaults_json>>)
              /\ \A p \in OtherTableFiles \cup {TablesDir \o <<s_defaults_json>>} :
                    stFs[p].content.t = "dict")
             => stPc = "returned"
          /\ stPc = "returned"
             => /\ {c.filepath : c \in Range(stOut.configs)} = OtherTableFiles
                /\ Len(stOut.configs) = Cardinality(OtherTableFiles)
                /\ \A c \in Range(stOut.configs) :
                      FileKeysWin(c.conf.v, ExpandedFile(c.filepath).v,
                                  OrEmptyDict(ExpandedFile(TablesDir \o <<s_defaults_json>>)))
  /\ (stOp = "load_config_with_defaults" /\ stPc = "returned"
        /\ stArg.defaults_file = s_defaults_json)
       => FileKeysWin(stOut.data.v, ExpandedFile(TablesDir \o <<stArg.filename>>).v,
                      ExpandedFile(TablesDir \o <<s_defaults_json>>).v)

\* C12 witness: defaults.json holds env and memory, a.json holds name and its
\* own env; the call returned entries for a.json and b.json, and the entry of
\* a.json has the memory of the defaults and the env of a.json.
C12_Witness ==
  /\ stOp = "load_table_configs"
  /\ stPc = "returned"
  /\ stArg.defaults_file = s_defaults_json
  /\ stFs = StoreFs(FragB, FragA, FragC)
  /\ stVars = VarsPlain
  /\ Len(stOut.configs) = 2
  /\ stOut.configs[1].filepath = TablesDir \o <<s_a_json>>
  /\ stOut.configs[1].conf.v["memory"] = Num(512)
  /\ stOut.configs[1].conf.v["env"] = FragA.v["env"]
  /\ stOut.configs[1].conf.v["name"] = Str(s_api_dash \o s_dev)

s_table_tok == <<"t", "a", "b", "l", "e", "-", "$", "{", "E", "n", "v", "N", "a", "m", "e", "}">>   \* table-${EnvName}
s_table_dev == <<"t", "a", "b", "l", "e", "-", "d", "e", "v">>   \* table-dev
s_tok_unknown == <<"$", "{", "U", "n", "k", "n", "o", "w", "n", "}">>   \* ${Unknown}

\* The variable set a call of expand_placeholders substitutes from.
UsedVars ==
  IF stArg.impl = "ConfigManager" /\ stArg.vars = NoneVars THEN stVars ELSE stArg.vars

\* The text of segments with every token of a known name replaced by the
\* variable's value and everything else as written.
RECURSIVE SegsReplaced(_, _)
SegsReplaced(segs, known) ==
  IF segs = <<>> THEN <<>>
  ELSE (IF Head(segs).k = "tok" /\ Head(segs).s \in DOMAIN known
          THEN known[Head(segs).s]
          ELSE SegText(Head(segs)))
         \o SegsReplaced(Tail(segs), known)

\* C13: expand_placeholders on a string replaces every occurrence of
\* ${identifier}, identifier over [A-Za-z0-9_]+, whose identifier is a key of
\* the variable set by the variable's value and leaves every other character
\* unchanged; "table-${EnvName}" with EnvName = dev becomes "table-dev".
C13_ExpandString ==
  (stOp = "expand_placeholders" /\ stPc # "call" /\ stArg.segs.t = "segs")
    => /\ stPc = "returned"
       /\ stOut.data = Str(SegsReplaced(stArg.segs.v, UsedVars))

\* C13 witness: "table-${EnvName}" was expanded with EnvName = dev to
\* "table-dev".
C13_Witness ==
  /\ stOp = "expand_placeholders"
  /\ stPc = "returned"
  /\ stArg.obj = Str(s_table_tok)
  /\ UsedVars = VarsPlain
  /\ stOut.data = Str(s_table_dev)

\* The names of the tokens of a segmented value, at any depth.
RECURSIVE TokenNames(_)
TokenNames(x) ==
  CASE x.t = "segs" -> {g.s : g \in {h \in Range(x.v) : h.k = "tok"}}
    [] x.t = "list" -> UNION {TokenNames(x.v[i]) : i \in DOMAIN x.v}
    [] x.t = "dict" -> UNION {TokenNames(x.v[k]) : k \in DOMAIN x.v}
    [] OTHER -> {}

\* C14: expand_placeholders raises on no unknown token and leaves it as
\* written, ${} included: for a string, list or mapping, nested, and a
\* variable set that holds none of the identifiers occurring in it, the result
\* equals the input; expand("${Unknown}", {}) returns "${Unknown}".
C14_UnknownVerbatim ==
  (stOp = "expand_placeholders" /\ stPc # "call"
     /\ TokenNames(stArg.segs) \cap DOMAIN UsedVars = {})
    => /\ stPc = "returned"
       /\ stOut.data = stArg.obj

\* C14 witness: "${Unknown}" was expanded with the empty variable set passed
\* to a ConfigManager whose own variable set is not empty, and came back as it
\* was.
C14_Witness ==
  /\ stOp = "expand_placeholders"
  /\ stPc = "returned"
  /\ stArg.impl = "ConfigManager"
  /\ stVars = VarsPlain
  /\ stArg.vars = NoVars
  /\ stArg.obj = Str(s_tok_unknown)
  /\ stOut.data = Str(s_tok_unknown)

\* A segmented value with every token of a known name replaced, at any depth.
RECURSIVE Replaced(_, _)
Replaced(x, known) ==
  CASE x.t = "segs" -> Str(SegsReplaced(x.v, known))
    [] x.t = "list" -> List([i \in DOMAIN x.v |-> Replaced(x.v[i], known)])
    [] x.t = "dict" -> Dict([k \in DOMAIN x.v |-> Replaced(x.v[k], known)])
    [] OTHER -> x

\* One expansion of what the file at path holds, with the variables v.
Once(path, v) == expand_placeholders(stFs[path].content, v)

\* The variables a folder load expands with.
FolderVars ==
  IF stArg.impl = "lambda_builder" THEN stArg.vars
  ELSE IF DOMAIN stArg.vars # {} THEN VarsUpdate(stVars, stArg.vars) ELSE stVars

\* The file a policy load reads.
PolicyPath ==
  IF stArg.base_dir # NoBaseDir THEN stArg.base_dir.v \o <<stArg.filename>>
  ELSE CONFIG_ROOT \o CONFIG_PATHS["policies"] \o <<stArg.filename>>

\* C15: expansion is one pass: the text a variable's value brings is in the
\* result as it is, also when it is a token of a known name; and each load
\* path of the store (single file, directory with or without defaults, file
\* with defaults, multi-part folder, policy file) returns what one expansion
\* of the files' contents gives, never an expansion of an expansion.
C15_SinglePass ==
  /\ (stOp = "expand_placeholders" /\ stPc # "call")
       => stPc = "returned" /\ stOut.data = Replaced(stArg.segs, UsedVars)
  /\ (stOp = "load_config" /\ stPc = "returned")
       => stOut.data = Once(TablesDir \o <<stArg.filename>>, stVars)
  /\ (stOp = "load_config_with_defaults" /\ stPc = "returned")
       => stOut.data =
            IF Len(stArg.defaults_file) > 0
              THEN Dict(Update(Once(TablesDir \o <<stArg.defaults_file>>, stVars).v,
                               Once(TablesDir \o <<stArg.filename>>, stVars).v))
              ELSE Once(TablesDir \o <<stArg.filename>>, stVars)
  /\ (stOp = "load_table_configs" /\ stPc = "returned")
       => \A c \in Range(stOut.configs) :
             c.conf =
               Dict(Update(IF Len(stArg.defaults_file) > 0
                             THEN OrEmptyDict(Once(TablesDir \o <<stArg.defaults_file>>, stVars))
                             ELSE EmptyDict,
                           Once(c.filepath, stVars).v))
  /\ (stOp = "load_lambda_config_from_folder" /\ stPc = "returned")
       => stOut.conf =
            expand_placeholders(
              Dict(ApplyLambdaDefaults(
                     MergeConfigFiles(stFs, ConfigFilesOf(stFs, stArg.folder), EmptyDict).conf,
                     stArg.folder)),
              FolderVars).v
  /\ (stOp = "apply_policies_to_role" /\ stPc = "returned")
       => stOut.attached = AttachPolicies({}, stArg.role, Once(PolicyPath, stVars)).attached

\* C15 witness: Branch has the value "${EnvName}" and EnvName is known;
\* a.json names the table "${Branch}"; the directory load with defaults
\* returned the entry of a.json with the name "${EnvName}".
C15_Witness ==
  /\ stOp = "load_table_configs"
  /\ stPc = "returned"
  /\ stVars = VarsToken
  /\ stArg.defaults_file = s_defaults_json
  /\ IsFile(stFs, TablesDir \o <<s_a_json>>)
  /\ stFs[TablesDir \o <<s_a_json>>].content = FragE
  /\ \E c \in Range(stOut.configs) :
        c.filepath = TablesDir \o <<s_a_json>> /\ c.conf.v["name"] = Str(s_tok_env)

\* The text s holds a token ${Name} whose Name is a key of known.
KnownTokenInText(s, known) ==
  \E i \in 1..Len(s) :
     VarMatchEnd(s, i) # 0 /\ SubSeq(s, i + 2, VarMatchEnd(s, i) - 1) \in DOMAIN known

\* Some string value of x, at any depth, holds such a token.
RECURSIVE KnownTokenIn(_, _)
KnownTokenIn(x, known) ==
  CASE x.t = "str" -> KnownTokenInText(x.v, known)
    [] x.t = "list" -> \E i \in DOMAIN x.v : KnownTokenIn(x.v[i], known)
    [] x.t = "dict" -> \E k \in DOMAIN x.v : KnownTokenIn(x.v[k], known)
    [] OTHER -> FALSE

\* Every "${" of the text s opens a token.
TokensWellFormedInText(s) ==
  \A i \in 1..Len(s) :
     (i < Len(s) /\ s[i] = "$" /\ s[i + 1] = "{") => VarMatchEnd(s, i) # 0

RECURSIVE TokensWellFormed(_)
TokensWellFormed(x) ==
  CASE x.t = "str" -> TokensWellFormedInText(x.v)
    [] x.t = "list" -> \A i \in DOMAIN x.v : TokensWellFormed(x.v[i])
    [] x.t = "dict" -> \A k \in DOMAIN x.v : TokensWellFormed(x.v[k])
    [] OTHER -> TRUE

\* No value of the variable set is empty or holds "$" or "{".
PlainValues(known) ==
  \A k \in DOMAIN known :
     known[k] # <<>> /\ "$" \notin Range(known[k]) /\ "{" \notin Range(known[k])

\* A load that expands placeholders has returned; the variable set it
\* expanded with; the values it returned.
LoadOps ==
  {"load_config", "load_config_with_defaults", "load_table_configs",
   "load_lambda_config_from_folder", "apply_policies_to_role"}
LoadReturned == stOp \in LoadOps /\ stPc = "returned"
LoadVars == IF stOp = "load_lambda_config_from_folder" THEN FolderVars ELSE stVars
LoadedValues ==
  CASE stOp \in {"load_config", "load_config_with_defaults"} -> {stOut.data}
    [] stOp = "load_table_configs" -> {c.conf : c \in Range(stOut.configs)}
    [] stOp = "load_lambda_config_from_folder" -> {Dict(stOut.conf)}
    [] stOp = "apply_policies_to_role" -> {a.doc : a \in stOut.attached}

\* The text the load reads is well formed: the files' contents and, for a
\* folder load, the folder's name.
LoadedTextWellFormed ==
  /\ \A p \in DOMAIN stFs :
        (stFs[p].kind = "file" /\ stFs[p].content.t \in {"dict", "list"})
          => TokensWellFormed(stFs[p].content)
  /\ stOp = "load_lambda_config_from_folder"
       => TokensWellFormedInText(PathStr(stArg.folder))

\* C16 as stated: after any load that expands placeholders no string value of
\* the returned structure, at any depth, holds a ${Name} token whose Name is a
\* key of the variable set used, for every content and every variable set.
C16_NoKnownToken ==
  LoadReturned => \A x \in LoadedValues : ~KnownTokenIn(x, LoadVars)

\* C16 amended: the same, for variable sets whose values are not empty and
\* hold neither "$" nor "{", and contents in which every "${" opens a token.
C16_NoKnownTokenOfText ==
  (LoadReturned /\ PlainValues(LoadVars) /\ LoadedTextWellFormed)
    => \A x \in LoadedValues : ~KnownTokenIn(x, LoadVars)

\* C16 witness: a.json holds the name "api-${EnvName}" and nested values; the
\* single-file load with EnvName = dev returned the name "api-dev".
C16_Witness ==
  /\ stOp = "load_config"
  /\ stPc = "returned"
  /\ stVars = VarsPlain
  /\ PlainValues(LoadVars)
  /\ LoadedTextWellFormed
  /\ stFs[TablesDir \o <<s_a_json>>].content = FragA
  /\ stOut.data.v["name"] = Str(s_api_dash \o s_dev)

\* The required keys absent from data, and the place of a key in the
\* declared list.
AbsentOf(data, required) == {k \in Range(required) : k \notin DOMAIN data}
PlaceIn(required, k) == CHOOSE n \in DOMAIN required : required[n] = k

\* e is the one error that names every absent required key, each once, in
\* the declared order.
NamesAllAbsent(e, data, required) ==
  /\ e.type = "ValueError"
  /\ e.rule = "validate_required_fields"
  /\ Range(e.fields) = AbsentOf(data, required)
  /\ Len(e.fields) = Cardinality(AbsentOf(data, required))
  /\ \A i, j \in DOMAIN e.fields :
        i < j => PlaceIn(required, e.fields[i]) < PlaceIn(required, e.fields[j])

\* C17: validate_required_fields raises one error naming every absent required
\* key in the declared order, and nothing when none is absent; build_table,
\* through the decorator, raises the same error and builds no table when a
\* required key is absent, and raises no such error when none is.
C17_MissingBatched ==
  /\ (stOp = "validate_required_fields" /\ stPc \in {"returned", "raised"})
       => IF AbsentOf(stArg.data, stArg.required_fields) = {}
            THEN stPc = "returned" /\ stOut.err = NoErr
            ELSE /\ stPc = "raised"
                 /\ NamesAllAbsent(stOut.err, stArg.data, stArg.required_fields)
  /\ (stOp = "build_table" /\ stPc \in {"returned", "raised"})
       => IF AbsentOf(stArg.conf, RequiredOfTable) = {}
            THEN stOut.err = NoErr \/ stOut.err.rule # "validate_required_fields"
            ELSE /\ stPc = "raised"
                 /\ stOut.table = Null
                 /\ NamesAllAbsent(stOut.err, stArg.conf, RequiredOfTable)

\* C17 witness: a fragment holding billing_mode only, checked against the
\* three required fields table_name, partition_key, billing_mode, raised one
\* error naming table_name and partition_key.
C17_Witness ==
  /\ stOp = "validate_required_fields"
  /\ stPc = "raised"
  /\ DOMAIN stArg.data = {"billing_mode"}
  /\ stArg.required_fields = <<"table_name", "partition_key", "billing_mode">>
  /\ stOut.err.fields = <<"table_name", "partition_key">>

\* The environment the context selects and the required fields it lacks,
\* read off the context itself.
ContextEnv == IF cfgContext.env_override # Null THEN s_main ELSE s_dev
ContextHas(block, key) ==
  /\ cfgContext.odyssey # Null
  /\ key \in DOMAIN cfgContext.odyssey.v[block].v
ContextMissing ==
  {ContextEnv \o s_dot_account_id : x \in {b \in {TRUE} : ~ContextHas(KeyOf(ContextEnv), "account_id")}}
    \cup {s_github_owner : x \in {b \in {TRUE} : ~ContextHas("github", "owner")}}
    \cup {s_github_repo : x \in {b \in {TRUE} : ~ContextHas("github", "repo")}}

\* C18: once get_cfg has been called, if the context lacks any of
\* <env>.account_id, github.owner, github.repo the call raised one error that
\* names exactly the missing fields, each once, and no configuration was
\* returned; if it lacks none the call raised nothing and returned one.
C18_MissingContextNamed ==
  cfgCalls > 0 =>
    IF ContextMissing = {}
      THEN /\ cfgRaised = NoErr
           /\ \E s \in Scopes : cfgReturned[s] # {}
      ELSE /\ cfgRaised.type = "ValueError"
           /\ cfgRaised.rule = "validate_context_keys"
           /\ Range(cfgRaised.names) = ContextMissing
           /\ Len(cfgRaised.names) = Cardinality(ContextMissing)
           /\ \A s \in Scopes : cfgReturned[s] = {}
           /\ cfgHeap = <<>>

\* C18 witness: the context selects dev, whose block has no account_id, and
\* its github block has an owner but no repo; the call raised one error
\* naming dev.account_id and github.repo.
C18_Witness ==
  /\ cfgCalls > 0
  /\ cfgContext.env_override = Null
  /\ ContextMissing = {s_dev \o s_dot_account_id, s_github_repo}
  /\ cfgRaised.names = <<s_dev \o s_dot_account_id, s_github_repo>>

\* The file at a listed path, read and expanded by the manager of the run.
ListedFile(path) == ConfigManager_load_json(fs, cmVars, path, TRUE)

\* The turn of the API loop uses the api.json inside the folder it is at.
OwnApiFile ==
  (pc = "ws_loop" /\ wIdx <= Len(apiDirs))
    => /\ err' = ListedFile(apiDirs[wIdx] \o <<s_api_json>>).err
       /\ err' = NoErr => apiConf' = ListedFile(apiDirs[wIdx] \o <<s_api_json>>).data.v

\* The turn of the route loop builds its route from the route file that was
\* listed.
OwnRouteFile ==
  (pc = "ws_route_loop" /\ rIdx <= Len(routeFiles))
    => /\ err' = RouteFrom(wsLambdas, routes, ApiName, routeFiles[rIdx],
                           ListedFile(routeFiles[rIdx])).err
       /\ err' = NoErr
            => routes' = routes \cup {RouteFrom(wsLambdas, routes, ApiName, routeFiles[rIdx],
                                                ListedFile(routeFiles[rIdx])).route}

\* C19: for each discovered API folder the API definition used is the
\* api.json inside that folder, and each route is loaded from the route file
\* that was listed in that folder's routes directory.
C19_ListedIsRead == [][OwnApiFile /\ OwnRouteFile]_vars

\* The top-level keys of a policy document other than managed and inline.
ExtraKeys(raw) == DOMAIN raw.v \ {"managed", "inline"}

\* C20: _validate_config rejects a policy document that has a top-level key
\* other than managed and inline with one error naming every extra key, each
\* once; a document whose top-level keys are among managed and inline is not
\* rejected for unknown keys.
C20_UnknownKeysNamed ==
  (stOp = "_validate_config" /\ stPc \in {"returned", "raised"} /\ stArg.raw.t = "dict")
    => IF ExtraKeys(stArg.raw) # {}
         THEN /\ stPc = "raised"
              /\ stOut.err.type = "ValueError"
              /\ stOut.err.rule = "Unknown keys in policy config"
              /\ Range(stOut.err.fields) = ExtraKeys(stArg.raw)
              /\ Len(stOut.err.fields) = Cardinality(ExtraKeys(stArg.raw))
         ELSE stOut.err = NoErr \/ stOut.err.rule # "Unknown keys in policy config"

\* C20 witness: a document with the keys inline, version and statements was
\* rejected with an error naming version and statements.
C20_Witness ==
  /\ stOp = "_validate_config"
  /\ stPc = "raised"
  /\ stArg.raw.t = "dict"
  /\ DOMAIN stArg.raw.v = {"inline", "version", "statements"}
  /\ Range(stOut.err.fields) = {"version", "statements"}

\* The outcome is a not-found error that identifies path.
NotFound(path) ==
  /\ stPc = "raised"
  /\ stOut.err.type = "FileNotFoundError"
  /\ stOut.err.names = path

\* C21: loading a named fragment whose path is not an existing file, or
\* listing a category directory, a routes directory, the API root or the
\* function root that is not an existing directory, raises a not-found error
\* identifying the path and returns no configuration and no file list; when
\* the file or directory exists no not-found error is raised for it.
C21_NotFoundNamesPath ==
  /\ (stOp = "load_config" /\ stPc # "call" /\ stArg.config_type \in DOMAIN CONFIG_PATHS)
       => LET path == CONFIG_ROOT \o CONFIG_PATHS[stArg.config_type] \o <<stArg.filename>>
          IN IF IsFile(stFs, path)
               THEN stOut.err.type # "FileNotFoundError"
               ELSE NotFound(path) /\ stOut.data = Null
  /\ (stOp = "list_config_files" /\ stPc # "call"
        /\ stArg.config_type \in DOMAIN CONFIG_PATHS)
       => LET path == CONFIG_ROOT \o CONFIG_PATHS[stArg.config_type]
          IN IF IsDir(stFs, path)
               THEN stPc = "returned"
               ELSE NotFound(path) /\ stOut.files = <<>>
  /\ (stOp = "find_route_files" /\ stPc # "call")
       => LET path == WsDir \o <<stArg.api_name, s_routes>>
          IN IF IsDir(stFs, path)
               THEN stPc = "returned"
               ELSE NotFound(path) /\ stOut.files = <<>>
  /\ (stOp = "find_api_directories" /\ stPc # "call")
       => IF IsDir(stFs, WsDir)
            THEN stPc = "returned"
            ELSE NotFound(WsDir) /\ stOut.dirs = <<>>
  /\ (stOp = "find_lambda_dirs" /\ stPc # "call")
       => IF IsDir(stFs, stArg.code_root)
            THEN stPc = "returned"
            ELSE NotFound(stArg.code_root) /\ stOut.dirs = <<>>

\* C21 witness: the folder of the API chat exists with its api.json but has no
\* routes directory; listing its routes raised the not-found error naming
\* that directory.
C21_Witness ==
  /\ stOp = "find_route_files"
  /\ stArg.api_name = s_chat
  /\ IsFile(stFs, WsDir \o <<s_chat, s_api_json>>)
  /\ ~IsDir(stFs, WsDir \o <<s_chat, s_routes>>)
  /\ NotFound(WsDir \o <<s_chat, s_routes>>)

\* C22: runtime_from returns the runtime for every letter-casing of the five
\* supported identifiers and raises the unsupported-runtime error, returning
\* none, for every other identifier that is not empty; to_attr_type returns
\* the type for every letter-casing of STRING, NUMBER, BINARY and raises for
\* every other value.
C22_ClosedSetsAnyCase ==
  /\ (stOp = "runtime_from" /\ stPc # "call")
       => IF stArg.canon # NoIdentifier
            THEN stPc = "returned" /\ stOut.runtime = stArg.canon
            ELSE Truthy(stArg.s)
                   => /\ stPc = "raised"
                      /\ stOut.err.type = "ValueError"
                      /\ stOut.err.rule = "runtime_from"
                      /\ stOut.runtime = <<>>
  /\ (stOp = "to_attr_type" /\ stPc # "call")
       => IF stArg.canon # NoIdentifier
            THEN stPc = "returned" /\ stOut.type = stArg.canon
            ELSE stPc = "raised" /\ stOut.type = <<>>

\* C22 witness: runtime_from("NodeJS20.X") returned the runtime nodejs20.x.
C22_Witness ==
  /\ stOp = "runtime_from"
  /\ stPc = "returned"
  /\ stArg.s = Str(<<"N", "o", "d", "e", "J", "S", "2", "0", ".", "X">>)
  /\ stOut.runtime = s_nodejs20

\* The routes an API has, the route files listed for it, and the functions
\* the API definition in use names in manage_connections_for.
RoutesOf(n) == {r \in routes : r.api = n}
ListedRoutes(n) == find_route_files(fs, n).files
McNames == GetOr(apiConf, "manage_connections_for", List(<<>>))
McGranted ==
  Truthy(McNames)
    => \A i \in DOMAIN McNames.v :
          \E a \in policies : a.role = McNames.v[i].v /\ a.name = "ManageConnections"

RequiredFails(rc) == ~({"route_key", "integration"} \subseteq DOMAIN rc)
ShapeFails(rc) ==
  \/ "integration" \notin DOMAIN rc
  \/ rc["integration"].t # "dict"
  \/ ~({"type", "lambda_name"} \subseteq DOMAIN rc["integration"].v)
EnumFails(rc) == rc["integration"].v["type"] # Str(s_lambda)
ReferenceFails(rc, lambdas) == rc["integration"].v["lambda_name"].v \notin DOMAIN lambdas

\* The rule whose error must surface: the first that fails, "none" when all
\* pass.  only_shape leaves the reference rule out.
FirstFailing(rc, lambdas, only_shape) ==
  IF RequiredFails(rc) THEN "validate_required_fields"
  ELSE IF ShapeFails(rc) THEN "validate_field_structure"
  ELSE IF EnumFails(rc) THEN "validate_enum_value"
  ELSE IF ~only_shape /\ ReferenceFails(rc, lambdas) THEN "validate_lambda_exists"
  ELSE "none"

\* C24: the route rules apply in the order required fields, shape of
\* integration, integration type, function reference; the error raised is
\* that of the first rule that fails, and the route is added only when all
\* pass.  validate_route_config applies the first three in the same order.
C24_RouteRuleOrder ==
  /\ (stOp = "add_routes_from_dir" /\ stPc # "call")
       => IF FirstFailing(stArg.rc, stArg.lambdas, FALSE) = "none"
            THEN /\ stPc = "returned"
                 /\ stOut.route.route_key = stArg.rc["route_key"]
                 /\ stOut.route.lambda = stArg.rc["integration"].v["lambda_name"]
            ELSE /\ stPc = "raised"
                 /\ stOut.err.rule = FirstFailing(stArg.rc, stArg.lambdas, FALSE)
                 /\ stOut.route.route_key = Null
  /\ (stOp = "validate_route_config" /\ stPc # "call")
       => IF FirstFailing(stArg.rc, stArg.lambdas, TRUE) = "none"
            THEN stPc = "returned"
            ELSE stPc = "raised"
                   /\ stOut.err.rule = FirstFailing(stArg.rc, stArg.lambdas, TRUE)

\* C24 witness: a route fragment whose integration type is http and whose
\* function ghost is not registered raised the error of the type rule.
C24_Witness ==
  /\ stOp = "add_routes_from_dir"
  /\ stPc = "raised"
  /\ ~RequiredFails(stArg.rc)
  /\ ~ShapeFails(stArg.rc)
  /\ stArg.rc["integration"].v["type"] = Str(s_http)
  /\ stArg.rc["integration"].v["lambda_name"] = Str(s_ghost)
  /\ stOut.err.rule = "validate_enum_value"

\* Every entry of the registry reg is an entry of next, unchanged.
Kept(reg, next) == \A n \in DOMAIN reg : n \in DOMAIN next /\ next[n] = reg[n]

\* C25: the table, function and API registries only grow: no step removes an
\* entry or puts another resource under a registered name, also when two
\* folders resolve to the same logical name.
C25_RegistriesAppendOnly ==
  [][Kept(tables, tables') /\ Kept(functions, functions') /\ Kept(apis, apis')]_vars

\* C25 witness: the folders auth and chat both resolve to the logical name
\* fn-dev and name no policy file; the first function is registered, the run
\* raised at the second, and the entry is still the function built from the
\* folder auth.
C25_Witness ==
  /\ entry = "LambdaFleet"
  /\ pc = "raised"
  /\ policies = {}
  /\ err.rule = "construct_id"
  /\ fIdx = 2
  /\ DOMAIN functions = {s_fn_dash \o s_dev}
  /\ functions[s_fn_dash \o s_dev].code_path = Str(PathStr(<<s_lambda_src, s_auth>>))

\* The policy document the call reads, and the faults of a document, read off
\* the document: an unknown key, a managed entry that is not a list, an inline
\* policy with no statement, a statement without Effect or Action, a
\* statement with neither Resource nor NotResource.
PolicyDoc == stFs[PolicyPath].content
StatementFaulty(st) ==
  \/ ~({"Effect", "Action"} \subseteq DOMAIN st.v)
  \/ ("Resource" \notin DOMAIN st.v /\ "NotResource" \notin DOMAIN st.v)
PolicyFaulty(raw) ==
  \/ ExtraKeys(raw) # {}
  \/ ("managed" \in DOMAIN raw.v /\ raw.v["managed"].t # "list")
  \/ /\ "inline" \in DOMAIN raw.v
     /\ \E n \in DOMAIN raw.v["inline"].v :
           \/ EnsureList(raw.v["inline"].v[n]) = <<>>
           \/ \E i \in DOMAIN EnsureList(raw.v["inline"].v[n]) :
                 StatementFaulty(EnsureList(raw.v["inline"].v[n])[i])

\* C26: apply_policies_to_role on a policy document with a fault in any part
\* raises with no managed and no inline policy attached to the role; on a
\* document without fault it attaches every managed and every inline policy.
C26_ValidateBeforeAttach ==
  (stOp = "apply_policies_to_role" /\ stPc # "call" /\ IsFile(stFs, PolicyPath)
     /\ PolicyDoc.t = "dict")
    => IF PolicyFaulty(PolicyDoc)
         THEN stPc = "raised" /\ stOut.attached = {}
         ELSE /\ stPc = "returned"
              /\ {a.name : a \in {b \in stOut.attached : b.kind = "inline"}}
                   = DOMAIN PolicyDoc.v["inline"].v
              /\ Cardinality({a \in stOut.attached : a.kind = "managed"})
                   = IF "managed" \in DOMAIN PolicyDoc.v
                       THEN Len(PolicyDoc.v["managed"].v) ELSE 0

\* C26 witness: the document has a managed list and a first inline policy in
\* order and a second inline policy whose statement has no Resource; the call
\* raised and nothing is attached.
C26_Witness ==
  /\ stOp = "apply_policies_to_role"
  /\ stPc = "raised"
  /\ IsFile(stFs, PolicyPath)
  /\ PolicyDoc.t = "dict"
  /\ DOMAIN PolicyDoc.v = {"managed", "inline"}
  /\ PolicyDoc.v["managed"] = ManagedOk
  /\ DOMAIN PolicyDoc.v["inline"].v = {"Logs", "Zed"}
  /\ ~StatementFaulty(PolicyDoc.v["inline"].v["Logs"].v[1])
  /\ StatementNoResource \in Range(PolicyDoc.v["inline"].v["Zed"].v)
  /\ stOut.attached = {}

\* C27: when grant_table_access raised because an entry of the function's
\* grant list names a table that is not registered, no grant of that list has
\* been applied to the function.
C27_GrantsAllOrNothing ==
  (pc = "raised" /\ err.rule = "grant_table_access")
    => \A g \in grants : g.fn # fFn.name

\* The access level an entry of a grant list declares: "none" when its
\* access value is outside read, write and readWrite.
DeclaredAccess(g) ==
  IF "access" \notin DOMAIN g \/ g["access"] = Null THEN "readWrite"
  ELSE IF g["access"].v \in Casings(s_read) THEN "read"
  ELSE IF g["access"].v \in Casings(s_write) THEN "write"
  ELSE IF g["access"].v \in Casings(s_readWrite) THEN "readWrite"
  ELSE "none"

\* C28: every grant grant_table_access makes is the one its entry declares:
\* read-only for read, write-only for write, read-write for readWrite or no
\* access value, and no grant for an access value outside these.
C28_GrantMatchesAccess ==
  (stOp = "grant_table_access" /\ stPc = "returned")
    => stOut.applied =
         {[fn |-> stArg.fn, table |-> stArg.grants[i].v["table"].v,
           access |-> DeclaredAccess(stArg.grants[i].v)] :
            i \in {j \in DOMAIN stArg.grants : DeclaredAccess(stArg.grants[j].v) # "none"}}

\* C29: no builder of an assembly run passes the config store a category the
\* category-to-directory mapping does not hold: get_config_path never raises
\* "Unknown config type" in a run over a well-formed configuration tree (the
\* tree of the end-to-end case).  (Violated: the table builder passes
\* "dynamodb".)
C29_CategoriesKnown ==
  EndToEndCase
    => ~(pc = "raised" /\ err.type = "ValueError" /\ err.rule = "get_config_path")

\* The second half of C29: every name validate_service_name accepts is a key
\* of the mapping.  (Violated under SpecStore: "dynamodb" is accepted.)
C29_ServiceNamesKnown ==
  (stOp = "validate_service_name" /\ stPc = "returned")
    => stArg \in DOMAIN CONFIG_PATHS

\* The categories the mapping lacks that a run raised on are only "dynamodb":
\* the policy builder, the API builder and the route loader pass keys.
C29_OnlyTableCategory ==
  (pc = "raised" /\ err.type = "ValueError" /\ err.rule = "get_config_path")
    => err.fields = <<"dynamodb">>

\* The environment name a context asks for: the override when one is given,
\* otherwise the default the context declares, otherwise dev; lower-cased.
GivenName(x) == x.t = "str" /\ x.v # <<>>
ChosenName(c) ==
  IF GivenName(c.env_override) THEN Lower(c.env_override.v)
  ELSE IF "env" \in DOMAIN c.odyssey.v /\ GivenName(c.odyssey.v["env"])
         THEN Lower(c.odyssey.v["env"].v)
         ELSE s_dev
\* The context entry keyed by an environment name; empty when there is none.
ChosenEntry(c, name) ==
  IF KeyOf(name) \in DOMAIN c.odyssey.v THEN c.odyssey.v[KeyOf(name)].v ELSE EmptyDict

\* C30: get_cfg names the environment after the override when one is given,
\* otherwise after the default the context declares, otherwise dev, in lower
\* case; account id, branch and connection id are those of the context entry
\* keyed by that name, the branch being the environment name when the entry
\* has none; when that entry has no account id the call raises naming
\* <name>.account_id.
C30_EnvSelection ==
  (stOp = "get_cfg" /\ stPc # "call")
    => IF "account_id" \in DOMAIN ChosenEntry(stArg, ChosenName(stArg))
         THEN /\ stPc = "returned"
              /\ stOut.cfg.env.name = ChosenName(stArg)
              /\ stOut.cfg.env.account_id = ChosenEntry(stArg, ChosenName(stArg))["account_id"]
              /\ stOut.cfg.env.branch =
                   IF "branch" \in DOMAIN ChosenEntry(stArg, ChosenName(stArg))
                     THEN ChosenEntry(stArg, ChosenName(stArg))["branch"]
                     ELSE Str(ChosenName(stArg))
              /\ stOut.cfg.env.connection_id =
                   IF "connection_id" \in DOMAIN ChosenEntry(stArg, ChosenName(stArg))
                     THEN ChosenEntry(stArg, ChosenName(stArg))["connection_id"]
                     ELSE Null
         ELSE /\ stPc = "raised"
              /\ stOut.err.names = <<ChosenName(stArg) \o s_dot_account_id>>

\* C30 witness: no override, the context declares the default Main, and
\* get_cfg returned the environment main with the main entry's account id and
\* the branch main.
C30_Witness ==
  /\ stOp = "get_cfg"
  /\ stPc = "returned"
  /\ stArg.env_override = Null
  /\ Get(stArg.odyssey.v, "env") = Str(s_Main)
  /\ "branch" \notin DOMAIN stArg.odyssey.v["main"].v
  /\ stOut.cfg.env.name = s_main
  /\ stOut.cfg.env.account_id = Str(s_acct_main)
  /\ stOut.cfg.env.branch = Str(s_main)

\* The override wins over a declared default: override MAIN with the
\* declared default dev returned the environment main.
C30_OverrideWins ==
  /\ stOp = "get_cfg"
  /\ stPc = "returned"
  /\ stArg.env_override = Str(s_MAIN)
  /\ Get(stArg.odyssey.v, "env") = Str(s_dev)
  /\ stOut.cfg.env.name = s_main

====
